---- MODULE Spec2Model ----
(***************************************************************************)
(* A model of the raycasting core of Proyecto1Graficas: the depth-buffered *)
(* framebuffer (framebuffer.rs), the ray caster (caster.rs), the enemy     *)
(* state machine (enemy.rs), the colour classifier, the texture lookup     *)
(* (textures.rs), the enemy pass, the sky and floor fill, the line of     *)
(* sight test and the frame loop (main.rs) and the map loader (maze.rs).   *)
(* Each subsystem has its own specification (SpecFramebuffer, SpecCaster,  *)
(* SpecEnemy, SpecColor, SpecTextures, SpecSprites, SpecRender, SpecFill,  *)
(* SpecLoop, SpecLoader, SpecLos); the variables of the other subsystems   *)
(* stay at their initial values.                                           *)
(*                                                                         *)
(* f32 values are modelled by integers (world units, depths) plus the      *)
(* value Infinity for f32::INFINITY; NaN is not modelled.                  *)
(***************************************************************************)
EXTENDS Integers, Sequences, FiniteSets, TLC

VARIABLES
    \* ---- Framebuffer (framebuffer.rs:5-12)
    width, height,          \* u32 dimensions
    color_buffer,           \* Image: [<<x, y>> -> colour]
    depth_buffer,           \* Vec<f32>: [0 .. width*height-1 -> depth]
    background_color,
    current_color,
    \* ---- history of the framebuffer calls (not program state)
    fbLog,                  \* per pixel: the calls made on it since the last clear()
    fbOut,                  \* what the out-of-bounds set_pixel_with_depth calls returned
    fbWiped,                \* the most recent clear() erased at least one depth write
    \* ---- cast_ray (caster.rs:15-82): its arguments, locals and result
    maze,                   \* Maze = Vec<Vec<char>>: rows of cells
    player_pos,             \* player.pos, world units
    cast_a,                 \* the cast angle a, as <<c, s, h>>: cos a = c/h, sin a = s/h
    block_size,
    draw_line,
    cast_d,                 \* the local d
    cast_pc,                \* "idle", "loop", "done" or "panic"
    intersect,              \* the Intersect returned
    \* ---- history of the cast (not program state)
    cast_reads,             \* the <<row, column>> indices maze[j][i] was read at
    cast_steps,             \* loop iterations that marched on (ended in `d += 1.0`)
    \* ---- Enemy (enemy.rs:21-42): one enemy, a record of its fields
    enemy,
    \* ---- history of the enemy (not program state)
    enemy_killed,           \* kill() has been invoked on the enemy
    enemy_last,             \* the last call that changed the enemy
    \* ---- is_transparent_color (main.rs:30-71): its argument and result
    tested_color,           \* <<r, g, b, a>>
    is_transparent,         \* <<>> before the call, then <<the bool returned>>
    \* ---- TextureManager (textures.rs): the images map and one pixel lookup
    images,                 \* key -> Image; an Image is [width, height, data_null]
    overflow_checks,        \* the build panics on integer overflow (debug profile)
    tex_call,               \* the arguments of get_pixel_color
    tex_result,             \* [returned, panic, color]: how the call ended
    \* ---- history of the lookup (not program state)
    tex_reads,              \* the byte indices of image.data read by the call
    \* ---- one frame of the main loop seen from the framebuffer (main.rs:1203-1278)
    sprites,                \* per enemy of the collection, what draw_sprite derives from it
    wall_distance,          \* per screen column, the distance cast_ray returned
    frame_pc,               \* "idle", "clear", "world", "enemies"
    next_sprite,            \* index of the next enemy render_enemies draws
    \* ---- render_enemies (main.rs:398-426): the collection it works on
    enemies,                \* Vec<Enemy>
    \* ---- history of render_enemies (not program state)
    enemy_ids,              \* per enemy of the collection, the number it was created with
    frame_log,              \* the last call: its arguments, who was removed, and per
                            \* iteration the enemy after update and as passed to draw_sprite
    \* ---- the sky and floor pass of render_world (main.rs:292-352)
    performance_mode,       \* the argument performance_mode
    fill_pc,                \* "idle", "clear", "fill", "filled"
    \* ---- the game loop (main.rs:1202-1451): one iteration is one frame
    game_state,             \* "Idle", "Playing" or "Paused"
    loop_pc,                \* "top", "render" or "present"
    \* ---- history of the game loop (not program state)
    frame_cleared,          \* framebuffer.clear() was called in this iteration
    scene,                  \* per pixel, the nearest <<depth, colour>> submitted by
                            \* the rendering of this iteration
    \* ---- load_maze_with_player (maze.rs:24-53): the file and the result
    map_text,               \* the map file: a sequence of characters
    maze_data,              \* the MazeData returned: [maze, player_start]
    \* ---- has_line_of_sight (main.rs:106-133): its arguments and result
    los_from, los_to,
    los_result              \* <<>> before the call, then <<the bool returned>>

fbVars == <<width, height, color_buffer, depth_buffer, background_color,
            current_color, fbLog, fbOut, fbWiped>>

castVars == <<maze, player_pos, cast_a, block_size, draw_line, cast_d, cast_pc,
              intersect, cast_reads, cast_steps>>

enemyVars == <<enemy, enemy_killed, enemy_last>>

colorVars == <<tested_color, is_transparent>>

texVars == <<images, overflow_checks, tex_call, tex_result, tex_reads>>

\* The variables of the subsystems other than framebuffer, caster and enemy.
spriteVars == <<sprites, wall_distance, frame_pc, next_sprite>>

renderVars == <<enemies, enemy_ids, frame_log>>

fillVars == <<performance_mode, fill_pc>>

loopVars == <<game_state, loop_pc, frame_cleared, scene>>

loaderVars == <<map_text, maze_data>>

losVars == <<los_from, los_to, los_result>>

extraVars == <<loopVars, loaderVars, losVars>>

restVars == <<spriteVars, renderVars, fillVars, extraVars>>

auxVars == <<colorVars, texVars, restVars>>

vars == <<fbVars, castVars, enemyVars, auxVars>>

\* ------------------------------------------------------------------ bounds
\* Finite depths submitted range over 0 .. MaxDepth.
MaxDepth == 2
\* At most MaxCalls in-bounds pixel writes are made between two clear() calls.
MaxCalls == 2

\* ------------------------------------------------------------- framebuffer
\* f32::INFINITY: larger than every finite depth, not smaller than itself.
Infinity == 1000000

\* The draw colours used; the background stays Color::BLACK.
Colors == {"WHITE", "RED"}

\* Color::WHITESMOKE, the colour cast_ray selects.
Whitesmoke == "WHITESMOKE"

\* The depths submitted: every call site passes a finite f32
\* (main.rs:298-348 the sentinel, main.rs:393 a step count, main.rs:230 a distance).
FiniteDepths == 0 .. MaxDepth

\* The framebuffer sizes <<width, height>> explored.
Dims == {<<2, 1>>, <<1, 2>>, <<2, 2>>}

\* The f32 comparison a < b.
DepthLess(a, b) == a < b

\* `x < self.width && y < self.height`
InBounds(x, y) == x < width /\ y < height

\* `(y * self.width + x) as usize`
PixelIndex(x, y) == y * width + x

DepthTestNotGreater(depth, stored) == depth = stored \/ DepthLess(depth, stored)

\* `depth < self.depth_buffer[index]`
DepthTest(depth, stored) == DepthLess(depth, stored)

KeptDepths(buf) == buf

\* `self.depth_buffer.fill(f32::INFINITY)`
ClearedDepths(buf) == [i \in DOMAIN buf |-> Infinity]

\* Image::gen_image_color(width, height, colour)
GenImageColor(w, h, c) == [p \in (0 .. w - 1) \X (0 .. h - 1) |-> c]

\* Indexing the depth vector outside its length panics.
IndexPanics(x, y) == InBounds(x, y) /\ PixelIndex(x, y) \notin DOMAIN depth_buffer

SetPixelWithDepthUntested(x, y, depth) == InBounds(x, y) /\ ~IndexPanics(x, y)

\* The value set_pixel_with_depth returns.
SetPixelWithDepthReturns(x, y, depth) ==
    /\ InBounds(x, y)
    /\ ~IndexPanics(x, y)
    /\ DepthTest(depth, depth_buffer[PixelIndex(x, y)])

GetDepthIndexChecked(x, y) ==
    IF PixelIndex(x, y) \in DOMAIN depth_buffer
    THEN depth_buffer[PixelIndex(x, y)]
    ELSE Infinity

\* Framebuffer::get_depth, a pure function of the framebuffer (&self).
GetDepth(x, y) ==
    IF InBounds(x, y)
    THEN IF IndexPanics(x, y) THEN "panic" ELSE depth_buffer[PixelIndex(x, y)]
    ELSE Infinity

\* Coordinates are u32: each axis has its in-bounds values and one beyond.
XCoords == 0 .. width

YCoords == 0 .. height

Pixels == (0 .. width - 1) \X (0 .. height - 1)

RECURSIVE SumLen(_, _)
SumLen(log, S) ==
    IF S = {} THEN 0
    ELSE LET p == CHOOSE q \in S : TRUE
         IN Len(log[p]) + SumLen(log, S \ {p})

\* The number of in-bounds pixel writes since the last clear().
LogTotal == SumLen(fbLog, DOMAIN fbLog)

\* Framebuffer::new(width, height)
FramebufferNew(w, h) ==
    /\ width = w
    /\ height = h
    /\ color_buffer = GenImageColor(w, h, "BLACK")
    /\ depth_buffer = [i \in 0 .. w * h - 1 |-> Infinity]
    /\ background_color = "BLACK"
    /\ current_color = "WHITE"
    /\ fbLog = [p \in (0 .. w - 1) \X (0 .. h - 1) |-> <<>>]
    /\ fbOut = {}
    /\ fbWiped = FALSE

\* No cast is in progress.
CasterIdle ==
    /\ maze = <<>>
    /\ player_pos = <<0, 0>>
    /\ cast_a = <<1, 0, 1>>
    /\ block_size = 1
    /\ draw_line = FALSE
    /\ cast_d = 0
    /\ cast_pc = "idle"
    /\ intersect = [distance |-> 0, impact |-> " ", tx |-> 0]
    /\ cast_reads = {}
    /\ cast_steps = 0

\* No colour has been classified.
NoColor ==
    /\ tested_color = <<0, 0, 0, 0>>
    /\ is_transparent = <<>>

\* No texture is loaded and no lookup made.
NoTextures ==
    /\ images = <<>>
    /\ overflow_checks = FALSE
    /\ tex_call = [op |-> "none"]
    /\ tex_result = [returned |-> FALSE, panic |-> FALSE, color |-> <<255, 255, 255, 255>>]
    /\ tex_reads = {}

\* No frame is being drawn.
NoSprites ==
    /\ sprites = <<>>
    /\ wall_distance = <<>>
    /\ frame_pc = "idle"
    /\ next_sprite = 0

\* No collection of enemies exists.
NoRender ==
    /\ enemies = <<>>
    /\ enemy_ids = <<>>
    /\ frame_log = [op |-> "none"]

\* No sky and floor pass is being made.
NoFill ==
    /\ performance_mode = FALSE
    /\ fill_pc = "idle"

\* The game loop is not running.
NoLoop ==
    /\ game_state = "Idle"
    /\ loop_pc = "top"
    /\ frame_cleared = FALSE
    /\ scene = <<>>

\* No map file has been read.
NoLoader ==
    /\ map_text = <<>>
    /\ maze_data = [loaded |-> FALSE, maze |-> <<>>, player_start |-> <<0, 0>>]

\* No line of sight has been asked for.
NoLos ==
    /\ los_from = <<0, 0>>
    /\ los_to = <<0, 0>>
    /\ los_result = <<>>

ExtraIdle == NoLoop /\ NoLoader /\ NoLos

RestIdle == NoSprites /\ NoRender /\ NoFill /\ ExtraIdle

AuxIdle == NoColor /\ NoTextures /\ RestIdle

\* No enemy has been constructed.
NoEnemy ==
    /\ enemy = [movement_pattern |-> "None"]
    /\ enemy_killed = FALSE
    /\ enemy_last = [op |-> "none"]

InitFramebuffer ==
    /\ \E d \in Dims : FramebufferNew(d[1], d[2])
    /\ CasterIdle
    /\ NoEnemy
    /\ AuxIdle

\* Framebuffer::clear
Clear ==
    /\ color_buffer' = GenImageColor(width, height, background_color)
    /\ depth_buffer' = ClearedDepths(depth_buffer)
    /\ fbLog' = [p \in DOMAIN fbLog |-> <<>>]
    /\ fbOut' = {}
    /\ fbWiped' = (\E i \in DOMAIN depth_buffer : depth_buffer[i] # Infinity)
    /\ UNCHANGED <<width, height, background_color, current_color>>
    /\ UNCHANGED <<castVars, enemyVars, auxVars>>

\* Framebuffer::set_pixel
SetPixel ==
    \E x \in XCoords, y \in YCoords :
        /\ LogTotal < MaxCalls
        /\ IF InBounds(x, y)
           THEN /\ color_buffer' = [color_buffer EXCEPT ![<<x, y>>] = current_color]
                /\ fbLog' = [fbLog EXCEPT ![<<x, y>>] = Append(@, [op |-> "set_pixel"])]
           ELSE UNCHANGED <<color_buffer, fbLog>>
        /\ UNCHANGED <<width, height, depth_buffer, background_color,
                       current_color, fbOut, fbWiped>>
        /\ UNCHANGED <<castVars, enemyVars, auxVars>>

\* Framebuffer::set_pixel_with_depth
SetPixelWithDepth ==
    \E x \in XCoords, y \in YCoords, depth \in FiniteDepths :
        /\ LogTotal < MaxCalls
        /\ IF SetPixelWithDepthReturns(x, y, depth)
           THEN /\ depth_buffer' = [depth_buffer EXCEPT ![PixelIndex(x, y)] = depth]
                /\ color_buffer' = [color_buffer EXCEPT ![<<x, y>>] = current_color]
           ELSE UNCHANGED <<depth_buffer, color_buffer>>
        /\ IF x < width /\ y < height
           THEN /\ fbLog' = [fbLog EXCEPT ![<<x, y>>] =
                              Append(@, [op |-> "set_pixel_with_depth",
                                         depth |-> depth,
                                         color |-> current_color,
                                         ret |-> SetPixelWithDepthReturns(x, y, depth),
                                         panic |-> IndexPanics(x, y)])]
                /\ UNCHANGED fbOut
           ELSE /\ fbOut' = fbOut \cup {SetPixelWithDepthReturns(x, y, depth)}
                /\ UNCHANGED fbLog
        /\ UNCHANGED <<width, height, background_color, current_color, fbWiped>>
        /\ UNCHANGED <<castVars, enemyVars, auxVars>>

\* Framebuffer::set_current_color
SetCurrentColor ==
    \E c \in Colors :
        /\ current_color' = c
        /\ UNCHANGED <<width, height, color_buffer, depth_buffer, background_color,
                       fbLog, fbOut, fbWiped>>
        /\ UNCHANGED <<castVars, enemyVars, auxVars>>

NextFramebuffer ==
    \/ Clear
    \/ SetPixel
    \/ SetPixelWithDepth
    \/ SetCurrentColor

SpecFramebuffer == InitFramebuffer /\ [][NextFramebuffer]_vars

\* ------------------------------------------------------------------ caster
\* `let block_size = 100;` in main, the cell size every cast is made with.
BlockSize == 100

\* Cell characters: ' ' floor, 'p' spawn, 'g' goal, anything else a wall class.
\* The grids explored, all non-empty and rectangular.
Mazes ==
    { << <<" ", "#", " ">>,
         <<" ", "+", " ">>,
         <<"p", " ", "g">> >>,
      << <<" ", " ", " ">>,
         <<" ", "#", " ">>,
         <<" ", " ", " ">> >>,
      << <<"+", "+", "+", "+">>,
         <<"+", "p", " ", "#">>,
         <<"+", "+", "g", "+">> >> }

\* Cast angles with rational cosine and sine: <<c, s, h>> stands for the
\* angle a with cos a = c/h and sin a = s/h (c*c + s*s = h*h).
Angles ==
    { <<1, 0, 1>>, <<0, 1, 1>>, <<-1, 0, 1>>, <<0, -1, 1>>,
      <<4, 3, 5>>, <<3, 4, 5>>, <<-4, 3, 5>>, <<-3, 4, 5>>,
      <<4, -3, 5>>, <<3, -4, 5>>, <<-4, -3, 5>>, <<-3, -4, 5>>,
      <<12, 5, 13>>, <<-5, -12, 13>> }

\* Camera positions tried (world units); a cast starts from those that lie
\* strictly inside a floor or spawn cell of the grid.
Positions ==
    { <<50, 50>>, <<99, 99>>, <<150, 150>>, <<250, 50>>, <<1, 250>>,
      <<199, 101>>, <<250, 150>> }

Rows(m) == Len(m)

Cols(m) == Len(m[1])

\* The cell maze[j][i], rows and columns counted from 0 as in the source.
Cell(m, j, i) == m[j + 1][i + 1]

\* `ray_x as usize`: truncation, saturating at 0 for a negative value.
AsUsize(num, den) == IF num < 0 THEN 0 ELSE num \div den

\* ray_x = player.pos.x + d * a.cos(), as the numerator over cast_a[3].
RayX(d) == player_pos[1] * cast_a[3] + d * cast_a[1]

\* ray_y = player.pos.y + d * a.sin(), as the numerator over cast_a[3].
RayY(d) == player_pos[2] * cast_a[3] + d * cast_a[2]

NeverNegative(d) == FALSE

\* `ray_x < 0.0 || ray_y < 0.0`
NegativeCoordinate(d) == RayX(d) < 0 \/ RayY(d) < 0

Unchecked(j, i) == FALSE

\* `j >= maze.len() || i >= maze[0].len()`
OutsideGrid(j, i) == j >= Rows(maze) \/ i >= Cols(maze)

IsHitUnlessGoal(c) == c # " " /\ c # "p" /\ c # "g"

\* `maze[j][i] != ' ' && maze[j][i] != 'p'`
IsHit(c) == c # " " /\ c # "p"

\* The texture column of a hit at pixel (x, y) of cell (j, i).
TextureColumn(x, y, j, i) ==
    LET hitx == x - i * block_size
        hity == y - j * block_size
        maxhit == IF 1 < hitx /\ hitx < block_size - 1 THEN hitx ELSE hity
    IN (maxhit * 127) \div block_size

DoubleStep(d) == d + 2

\* `d += 1.0`
NextDistance(d) == d + 1

\* The boundary sentinel returned at distance d.
Sentinel(d) == [distance |-> d, impact |-> "+", tx |-> 0]

StrictlyInsideFloor(m, pos, bs) ==
    /\ pos[1] % bs # 0
    /\ pos[2] % bs # 0
    /\ pos[2] \div bs < Rows(m)
    /\ pos[1] \div bs < Cols(m)
    /\ Cell(m, pos[2] \div bs, pos[1] \div bs) \in {" ", "p"}

\* A call cast_ray(framebuffer, maze, player, a, block_size, draw_line) up to
\* its loop: `let mut d = 0.0; framebuffer.set_current_color(WHITESMOKE)`.
InitCaster ==
    /\ FramebufferNew(2, 2)
    /\ maze \in Mazes
    /\ block_size = BlockSize
    /\ player_pos \in {q \in Positions : StrictlyInsideFloor(maze, q, block_size)}
    /\ cast_a \in Angles
    /\ draw_line \in BOOLEAN
    /\ cast_d = 0
    /\ cast_pc = "call"
    /\ intersect = [distance |-> 0, impact |-> " ", tx |-> 0]
    /\ cast_reads = {}
    /\ cast_steps = 0
    /\ NoEnemy
    /\ AuxIdle

\* caster.rs:23-25
CastBegin ==
    /\ cast_pc = "call"
    /\ cast_pc' = "loop"
    /\ cast_d' = 0
    /\ current_color' = Whitesmoke
    /\ UNCHANGED <<width, height, color_buffer, depth_buffer, background_color,
                   fbLog, fbOut, fbWiped>>
    /\ UNCHANGED <<maze, player_pos, cast_a, block_size, draw_line, intersect,
                   cast_reads, cast_steps>>
    /\ UNCHANGED <<enemyVars, auxVars>>

\* One iteration of the loop of cast_ray (caster.rs:27-81).
CastStep ==
    /\ cast_pc = "loop"
    /\ LET x == AsUsize(RayX(cast_d), cast_a[3])
           y == AsUsize(RayY(cast_d), cast_a[3])
           i == x \div block_size
           j == y \div block_size
       IN IF NegativeCoordinate(cast_d)
          THEN /\ intersect' = Sentinel(cast_d)
               /\ cast_pc' = "done"
               /\ UNCHANGED <<cast_d, cast_reads, cast_steps, color_buffer, fbLog>>
          ELSE IF OutsideGrid(j, i)
          THEN /\ intersect' = Sentinel(cast_d)
               /\ cast_pc' = "done"
               /\ UNCHANGED <<cast_d, cast_reads, cast_steps, color_buffer, fbLog>>
          ELSE IF j >= Rows(maze) \/ i >= Len(maze[j + 1])
          THEN \* indexing outside the vector panics
               /\ cast_pc' = "panic"
               /\ cast_reads' = cast_reads \cup {<<j, i>>}
               /\ UNCHANGED <<cast_d, cast_steps, intersect, color_buffer, fbLog>>
          ELSE IF IsHit(Cell(maze, j, i))
          THEN /\ intersect' = [distance |-> cast_d,
                                impact |-> Cell(maze, j, i),
                                tx |-> TextureColumn(x, y, j, i)]
               /\ cast_pc' = "done"
               /\ cast_reads' = cast_reads \cup {<<j, i>>}
               /\ UNCHANGED <<cast_d, cast_steps, color_buffer, fbLog>>
          ELSE /\ cast_d' = NextDistance(cast_d)
               /\ cast_steps' = cast_steps + 1
               /\ cast_reads' = cast_reads \cup {<<j, i>>}
               /\ IF draw_line /\ InBounds(x, y)
                  THEN /\ color_buffer' = [color_buffer EXCEPT ![<<x, y>>] = current_color]
                       /\ fbLog' = [fbLog EXCEPT ![<<x, y>>] =
                                       Append(@, [op |-> "set_pixel"])]
                  ELSE UNCHANGED <<color_buffer, fbLog>>
               /\ UNCHANGED <<cast_pc, intersect>>
    /\ UNCHANGED <<width, height, depth_buffer, background_color, current_color,
                   fbOut, fbWiped>>
    /\ UNCHANGED <<maze, player_pos, cast_a, block_size, draw_line>>
    /\ UNCHANGED <<enemyVars, auxVars>>

NextCaster ==
    \/ CastBegin
    \/ CastStep

SpecCaster == InitCaster /\ [][NextCaster]_vars

\* The loop of cast_ray runs until it returns: every enabled step is taken.
SpecCasterFair == SpecCaster /\ WF_vars(NextCaster)

\* ------------------------------------------------------------------- enemy
\* Positions and lengths are f32 world units, kept here in tenths of a unit;
\* times are f32 seconds, kept in milliseconds.
Deci(u) == 10 * u

\* `frame_duration: 0.2`
FrameDuration == 200
\* `movement_speed: 50.0`, units per second
WalkSpeed == 50
\* `enemy.movement_speed = 75.0`
ChaseSpeed == 75
\* `distance_to_target < 10.0`
PatrolReach == 10
\* `distance_to_target > 5.0`
WanderReach == 5
\* `distance_to_player < 300.0`
ChaseFar == 300
\* `distance_to_player > 20.0`
ChaseNear == 20
\* `let margin = 20.0`
Margin == 20
\* `self.death_timer > 3.0`
DespawnAfter == 3000
\* the 4 frames of every animation
MaxFrames == 4

\* The frame times delta_time the enemy is updated with, in milliseconds.
DeltaTimes == {100, 200}

\* The grids the enemy lives in.
EnemyMazes ==
    { << <<" ", " ", " ", " ">>,
         <<" ", " ", "#", " ">>,
         <<"p", " ", " ", "g">> >>,
      << <<"#", "#", "#", "#", "#", "#", "#", "#">>,
         <<"#", "#", "#", "#", "#", "#", "#", "#">>,
         <<" ", "#", " ", " ", " ", " ", " ", " ">> >> }

Vec(x, y) == <<Deci(x), Deci(y)>>

\* The player positions passed to update.
PlayerSpots == {Vec(50, 250), Vec(150, 250), Vec(350, 250), Vec(750, 250)}

\* player.rs check_collision: the player stands in a floor or spawn cell of
\* the grid.
PlayerCanStand(m, pp) ==
    /\ pp[1] >= 0
    /\ pp[2] >= 0
    /\ pp[2] \div Deci(BlockSize) < Rows(m)
    /\ pp[1] \div Deci(BlockSize) < Cols(m)
    /\ Cell(m, pp[2] \div Deci(BlockSize), pp[1] \div Deci(BlockSize)) \in {" ", "p"}

\* Enemy::new(x, y, texture_key)
EnemyNew(x, y) ==
    [ pos |-> <<x, y>>,
      animation_state |-> "Idle",
      current_frame |-> 0,
      animation_timer |-> 0,
      facing_left |-> FALSE,
      is_dead |-> FALSE,
      death_timer |-> 0,
      movement_pattern |-> "Stationary",
      movement_speed |-> WalkSpeed,
      patrol_start |-> <<x, y>>,
      patrol_end |-> <<x, y>>,
      wander_center |-> <<x, y>>,
      wander_radius |-> Deci(100),
      movement_timer |-> 0,
      target_pos |-> <<x, y>> ]

\* Enemy::new_patrol(x, y, texture_key, end_x, end_y)
EnemyNewPatrol(x, y, end_x, end_y) ==
    [EnemyNew(x, y) EXCEPT !.movement_pattern = "Patrol",
                           !.patrol_start = <<x, y>>,
                           !.patrol_end = <<end_x, end_y>>,
                           !.target_pos = <<end_x, end_y>>]

\* Enemy::new_wander(x, y, texture_key, radius)
EnemyNewWander(x, y, radius) ==
    [EnemyNew(x, y) EXCEPT !.movement_pattern = "Wander",
                           !.wander_radius = radius]

\* Enemy::new_chase(x, y, texture_key)
EnemyNewChase(x, y) ==
    [EnemyNew(x, y) EXCEPT !.movement_pattern = "Chase",
                           !.movement_speed = ChaseSpeed]

SetAnimationUnguarded(e, new_state) ==
    IF e.animation_state # new_state
    THEN [e EXCEPT !.animation_state = new_state,
                   !.current_frame = 0,
                   !.animation_timer = 0]
    ELSE e

\* Enemy::set_animation
SetAnimation(e, new_state) ==
    IF e.animation_state = "Death" THEN e
    ELSE IF e.animation_state # new_state
    THEN [e EXCEPT !.animation_state = new_state,
                   !.current_frame = 0,
                   !.animation_timer = 0]
    ELSE e

KillKeepsFrame(e) ==
    IF ~e.is_dead
    THEN [e EXCEPT !.is_dead = TRUE,
                   !.death_timer = 0,
                   !.animation_state = "Death",
                   !.animation_timer = 0]
    ELSE e

\* Enemy::kill
Kill(e) ==
    IF ~e.is_dead
    THEN [e EXCEPT !.is_dead = TRUE,
                   !.death_timer = 0,
                   !.animation_state = "Death",
                   !.current_frame = 0,
                   !.animation_timer = 0]
    ELSE e

\* Enemy::should_despawn
ShouldDespawn(e) == e.is_dead /\ e.death_timer > DespawnAfter

\* The cell index `(v / block_size as f32) as usize` of a coordinate.
CellIndex(v) == AsUsize(v, Deci(block_size))

\* Enemy::would_collide_with_wall
WouldCollideWithWall(new_pos) ==
    LET corners == { <<new_pos[1] - Deci(Margin), new_pos[2] - Deci(Margin)>>,
                     <<new_pos[1] + Deci(Margin), new_pos[2] - Deci(Margin)>>,
                     <<new_pos[1] - Deci(Margin), new_pos[2] + Deci(Margin)>>,
                     <<new_pos[1] + Deci(Margin), new_pos[2] + Deci(Margin)>> }
    IN \E c \in corners :
          IF CellIndex(c[2]) < Rows(maze) /\ CellIndex(c[1]) < Cols(maze)
          THEN Cell(maze, CellIndex(c[2]), CellIndex(c[1])) # " "
          ELSE TRUE

RECURSIVE SqrtBetween(_, _, _)
\* The largest r in lo .. hi with r * r <= n, by bisection.
SqrtBetween(n, lo, hi) ==
    IF lo >= hi THEN lo
    ELSE CHOOSE r \in { IF mid * mid <= n THEN SqrtBetween(n, mid, hi)
                                          ELSE SqrtBetween(n, lo, mid - 1) :
                        mid \in {(lo + hi + 1) \div 2} } : TRUE

\* .sqrt(), to the tenth of a unit below.
Sqrt(n) == SqrtBetween(n, 0, 8192)

\* A quotient rounded to the nearest integer; b > 0.
RoundDiv(a, b) ==
    IF a >= 0 THEN (2 * a + b) \div (2 * b) ELSE -((2 * (-a) + b) \div (2 * b))

\* `movement_speed * delta_time`, in tenths of a unit.
MoveDistance(speed, dt) == (speed * dt) \div 100

MoveAway(dx, dist, move) == RoundDiv((-dx) * move, dist)

\* The move (dx / distance) * move_distance along one axis.
MoveAlong(dx, dist, move) == RoundDiv(dx * move, dist)

\* The common tail of the three movements: try the new position.
TryMove(e, move_x, move_y) ==
    CHOOSE r \in
        { IF ~WouldCollideWithWall(new_pos)
          THEN [SetAnimation([e EXCEPT !.pos = new_pos], "Walking")
                   EXCEPT !.facing_left = new_pos[1] < e.pos[1]]
          ELSE SetAnimation(e, "Idle") :
          new_pos \in {<<e.pos[1] + move_x, e.pos[2] + move_y>>} } : TRUE

DistSq(a, b) == (b[1] - a[1]) * (b[1] - a[1]) + (b[2] - a[2]) * (b[2] - a[2])

PatrolReachedWide(e) == DistSq(e.pos, e.target_pos) < Deci(3 * PatrolReach) * Deci(3 * PatrolReach)

\* `distance_to_target < 10.0`
PatrolReached(e) == DistSq(e.pos, e.target_pos) < Deci(PatrolReach) * Deci(PatrolReach)

\* Enemy::update_patrol_movement
UpdatePatrolMovement(e, dt) ==
    LET dx == e.target_pos[1] - e.pos[1]
        dy == e.target_pos[2] - e.pos[2]
        dist == Sqrt(dx * dx + dy * dy)
        move == MoveDistance(e.movement_speed, dt)
    IN IF PatrolReached(e)
       THEN IF e.target_pos = e.patrol_end
            THEN [e EXCEPT !.target_pos = e.patrol_start]
            ELSE [e EXCEPT !.target_pos = e.patrol_end]
       ELSE TryMove(e, MoveAlong(dx, dist, move), MoveAlong(dy, dist, move))

Pi == 3142

\* sin of an angle given in milliradians, times 1000 (Bhaskara's rational
\* approximation, within 2 thousandths).
Sin1000(mrad) ==
    LET a == mrad % (2 * Pi)
        x == IF a < Pi THEN a ELSE a - Pi
        p == (x * (Pi - x)) \div 100
        v == (16000 * p) \div (5 * 98722 - 4 * p)
    IN IF a < Pi THEN v ELSE -v

Cos1000(mrad) == Sin1000(mrad + Pi \div 2)

Abs(v) == IF v < 0 THEN -v ELSE v

\* `self.pos.x as i32 % 3`: truncation toward zero, remainder with the sign of
\* the dividend.
TruncRem3(x) ==
    LET t == IF x >= 0 THEN x \div Deci(1) ELSE -((-x) \div Deci(1))
    IN IF t >= 0 THEN t % 3 ELSE -((-t) % 3)

\* The tail of Enemy::update_wander_movement: walk toward the target at 0.7
\* of the speed.
WanderToward(e1, dt) ==
    LET dx == e1.target_pos[1] - e1.pos[1]
        dy == e1.target_pos[2] - e1.pos[2]
        dist == Sqrt(dx * dx + dy * dy)
        move == (7 * MoveDistance(e1.movement_speed, dt)) \div 10
    IN IF dx * dx + dy * dy > Deci(WanderReach) * Deci(WanderReach)
       THEN TryMove(e1, MoveAlong(dx, dist, move), MoveAlong(dy, dist, move))
       ELSE SetAnimation(e1, "Idle")

\* The head of Enemy::update_wander_movement: pick a new target when the
\* timer has run out.
WanderRetarget(e) ==
    LET angle == e.pos[1] + e.pos[2]
        distance == e.wander_radius \div 2
                    + (e.wander_radius * Abs(Sin1000(angle))) \div 2000
    IN IF e.movement_timer > 2000 + 1000 * TruncRem3(e.pos[1])
       THEN [e EXCEPT !.movement_timer = 0,
                      !.target_pos =
                         <<e.wander_center[1] + RoundDiv(distance * Cos1000(angle), 1000),
                           e.wander_center[2] + RoundDiv(distance * Sin1000(angle), 1000)>>]
       ELSE e

\* Enemy::update_wander_movement
UpdateWanderMovement(e, dt) ==
    CHOOSE r \in { WanderToward(e1, dt) : e1 \in {WanderRetarget(e)} } : TRUE

InChaseBandNoLower(dsq) == dsq < Deci(ChaseFar) * Deci(ChaseFar)

\* `distance_to_player < 300.0 && distance_to_player > 20.0`, on the square
\* of the distance.
InChaseBand(dsq) ==
    dsq < Deci(ChaseFar) * Deci(ChaseFar) /\ dsq > Deci(ChaseNear) * Deci(ChaseNear)

\* Enemy::update_chase_movement
UpdateChaseMovement(e, dt, pp) ==
    LET dx == pp[1] - e.pos[1]
        dy == pp[2] - e.pos[2]
        dsq == dx * dx + dy * dy
        dist == Sqrt(dsq)
        move == MoveDistance(e.movement_speed, dt)
    IN IF InChaseBand(dsq)
       THEN TryMove(e, MoveAlong(dx, dist, move), MoveAlong(dy, dist, move))
       ELSE SetAnimation(e, "Idle")

\* Enemy::update_movement.  movement_timer is read by the Wander pattern
\* only; for the other patterns, which only ever add to it, it is left at 0.
UpdateMovement(e, dt, pp) ==
    LET e1 == IF e.movement_pattern = "Wander"
              THEN [e EXCEPT !.movement_timer = @ + dt]
              ELSE e
    IN CASE e.movement_pattern = "Stationary" -> SetAnimation(e1, "Idle")
         [] e.movement_pattern = "Patrol" -> UpdatePatrolMovement(e1, dt)
         [] e.movement_pattern = "Wander" -> UpdateWanderMovement(e1, dt)
         [] e.movement_pattern = "Chase" -> UpdateChaseMovement(e1, dt, pp)

AnimateAlwaysWraps(e1, dt) ==
    LET e2 == [e1 EXCEPT !.animation_timer = @ + dt]
    IN IF e2.animation_timer >= FrameDuration
       THEN [e2 EXCEPT !.animation_timer = 0,
                       !.current_frame = (@ + 1) % MaxFrames]
       ELSE e2

\* The animation half of Enemy::update, on the enemy e1 the first half left.
Animate(e1, dt) ==
    LET e2 == [e1 EXCEPT !.animation_timer = @ + dt]
    IN IF e2.animation_timer >= FrameDuration
       THEN [e2 EXCEPT !.animation_timer = 0,
                       !.current_frame =
                          IF e2.is_dead /\ e2.animation_state = "Death"
                          THEN IF @ + 1 < MaxFrames - 1 THEN @ + 1 ELSE MaxFrames - 1
                          ELSE (@ + 1) % MaxFrames]
       ELSE e2

UpdateKeepsDeathTimer(e, dt, pp) ==
    CHOOSE r \in
        { Animate(e1, dt) :
          e1 \in { IF e.is_dead THEN e ELSE UpdateMovement(e, dt, pp) } } : TRUE

\* Enemy::update
Update(e, dt, pp) ==
    CHOOSE r \in
        { Animate(e1, dt) :
          e1 \in { IF e.is_dead
                   THEN [e EXCEPT !.death_timer = @ + dt]
                   ELSE UpdateMovement(e, dt, pp) } } : TRUE

\* `maze[maze_y][maze_x] == ' '` in bounds: where an enemy may be created.
IsValidEnemyPosition(m, pos) ==
    /\ pos[2] \div Deci(BlockSize) < Rows(m)
    /\ pos[1] \div Deci(BlockSize) < Cols(m)
    /\ Cell(m, pos[2] \div Deci(BlockSize), pos[1] \div Deci(BlockSize)) = " "

\* The enemies create_enemies_for_maze may construct.
EnemyConfigs ==
    { EnemyNew(Deci(50), Deci(150)),
      EnemyNewPatrol(Deci(0), Deci(0), Deci(100), Deci(0)),
      EnemyNewPatrol(Deci(50), Deci(50), Deci(150), Deci(50)),
      EnemyNewPatrol(Deci(150), Deci(150), Deci(350), Deci(150)),
      EnemyNewPatrol(Deci(150), Deci(250), Deci(130), Deci(50)),
      EnemyNewWander(Deci(150), Deci(150), Deci(50)),
      EnemyNewWander(Deci(25), Deci(250), Deci(50)),
      EnemyNewChase(Deci(250), Deci(250)) }

\* The grid and cell size an enemy is updated against.
EnemyWorld(m) ==
    /\ maze = m
    /\ player_pos = <<0, 0>>
    /\ cast_a = <<1, 0, 1>>
    /\ block_size = BlockSize
    /\ draw_line = FALSE
    /\ cast_d = 0
    /\ cast_pc = "idle"
    /\ intersect = [distance |-> 0, impact |-> " ", tx |-> 0]
    /\ cast_reads = {}
    /\ cast_steps = 0

InitEnemy ==
    /\ FramebufferNew(2, 2)
    /\ \E m \in EnemyMazes :
        /\ EnemyWorld(m)
        /\ enemy \in {c \in EnemyConfigs :
                        /\ IsValidEnemyPosition(m, c.pos)
                        /\ IsValidEnemyPosition(m, c.patrol_end)}
    /\ enemy_killed = FALSE
    /\ enemy_last = [op |-> "new"]
    /\ AuxIdle

\* The call update(delta_time, player_pos, ..) as recorded: player_pos is
\* recorded where update_chase_movement reads it, the only code that does.
UpdateCall(e, dt, pp) ==
    IF e.movement_pattern = "Chase" /\ ~e.is_dead
    THEN [op |-> "update", pp |-> pp]
    ELSE [op |-> "update"]

\* enemy.update(delta_time, player.pos, maze, block_size); render_enemies
\* drops an enemy that should despawn before it updates the others.
EnemyUpdate ==
    /\ ~ShouldDespawn(enemy)
    /\ \E dt \in DeltaTimes, pp \in {p \in PlayerSpots : PlayerCanStand(maze, p)} :
          /\ enemy' = Update(enemy, dt, pp)
          /\ enemy_last' = UpdateCall(enemy, dt, pp)
    /\ UNCHANGED enemy_killed
    /\ UNCHANGED <<fbVars, castVars, auxVars>>

\* enemy.kill()
EnemyKill ==
    /\ enemy' = Kill(enemy)
    /\ enemy_killed' = TRUE
    /\ enemy_last' = IF enemy' # enemy THEN [op |-> "kill"] ELSE enemy_last
    /\ UNCHANGED <<fbVars, castVars, auxVars>>

\* enemy.set_animation(state), with the states the program passes.
EnemySetAnimation ==
    /\ \E st \in {"Idle", "Walking", "Attack"} :
          /\ enemy' = SetAnimation(enemy, st)
          /\ enemy_last' = IF enemy' # enemy THEN [op |-> "set_animation"]
                                               ELSE enemy_last
    /\ UNCHANGED enemy_killed
    /\ UNCHANGED <<fbVars, castVars, auxVars>>

NextEnemy ==
    \/ EnemyUpdate
    \/ EnemyKill
    \/ EnemySetAnimation

SpecEnemy == InitEnemy /\ [][NextEnemy]_vars

\* The frame loop updates every enemy of the collection in every frame.
SpecEnemyFair == SpecEnemy /\ WF_vars(EnemyUpdate)

\* --------------------------------------------------- is_transparent_color
\* const TRANSPARENT_COLOR: Color = Color::new(152, 0, 136, 255)
TransparentColor == <<152, 0, 136, 255>>

\* The u8 values a colour component is drawn from: the edges of every range
\* is_transparent_color tests, and a value inside each.
ComponentSamples == {0, 24, 25, 49, 50, 74, 75, 85, 86, 115, 116, 136, 152, 230, 231, 255}

AlphaSamples == {0, 127, 128, 255}

SampleColors == {<<r, g, b, a>> : r \in ComponentSamples, g \in ComponentSamples,
                                 b \in ComponentSamples, a \in AlphaSamples}

AllIn(c, lo, hi) ==
    /\ c[1] >= lo /\ c[1] <= hi
    /\ c[2] >= lo /\ c[2] <= hi
    /\ c[3] >= lo /\ c[3] <= hi

IsTransparentColorNoWhite(c) ==
    \/ c = TransparentColor
    \/ c[4] < 128
    \/ AllIn(c, 50, 85)
    \/ AllIn(c, 75, 115)
    \/ c[1] < 25 /\ c[2] < 25 /\ c[3] < 25

\* fn is_transparent_color(color: Color) -> bool
IsTransparentColor(c) ==
    IF c = TransparentColor THEN TRUE
    ELSE IF c[4] < 128 THEN TRUE
    ELSE IF AllIn(c, 50, 85) THEN TRUE
    ELSE IF AllIn(c, 75, 115) THEN TRUE
    ELSE IF c[1] < 25 /\ c[2] < 25 /\ c[3] < 25 THEN TRUE
    ELSE IF c[1] > 230 /\ c[2] > 230 /\ c[3] > 230 THEN TRUE
    ELSE FALSE

\* A colour about to be classified.
InitColor ==
    /\ FramebufferNew(2, 2)
    /\ CasterIdle
    /\ NoEnemy
    /\ tested_color \in SampleColors
    /\ is_transparent = <<>>
    /\ NoTextures
    /\ RestIdle

\* The call is_transparent_color(tested_color).
ClassifyColor ==
    /\ is_transparent = <<>>
    /\ is_transparent' = <<IsTransparentColor(tested_color)>>
    /\ UNCHANGED <<fbVars, castVars, enemyVars, texVars, restVars, tested_color>>

SpecColor == InitColor /\ [][ClassifyColor]_vars

\* ---------------------------------------------------------- TextureManager
\* Color::WHITE
White == <<255, 255, 255, 255>>

\* The image sizes explored: Image.width and Image.height, zero included.
ImageWidths == 0 .. 3

ImageHeights == 0 .. 2

\* The texture coordinates passed, inside and beyond every image explored.
TexCoords == {0, 1, 2, 3, 1000}

\* The keys looked up: 'e' is bound by TextureManager::new, 'x' is not.
TexKeys == {"e", "x"}

\* The byte image.data[k] of an image: every byte differs from its neighbours.
DataByte(k) == (k + 1) % 256

\* `t.min(n as u32 - 1)` where the subtraction did not panic: for n = 0 it
\* wraps to u32::MAX, and every t is at most u32::MAX.
MinWithLast(t, n) == IF n = 0 THEN t ELSE IF t < n - 1 THEN t ELSE n - 1

\* `n as u32 - 1` overflows.
SubOverflows(n) == n = 0

Returned(c, reads) == [returned |-> TRUE, panic |-> FALSE, color |-> c, reads |-> reads]

Panicked == [returned |-> FALSE, panic |-> TRUE, color |-> White, reads |-> {}]

\* fn get_pixel_color(image: &Image, x: i32, y: i32) -> Color
GetPixelColor(image, x, y) ==
    IF x < 0 \/ y < 0 \/ x >= image.width \/ y >= image.height
    THEN Returned(White, {})
    ELSE LET x1 == IF x < image.width - 1 THEN x ELSE image.width - 1
             y1 == IF y < image.height - 1 THEN y ELSE image.height - 1
             byte_index == (y1 * image.width + x1) * 4
             total_bytes == image.width * image.height * 4
         IN IF image.data_null THEN Returned(White, {})
            ELSE IF byte_index + 3 >= total_bytes THEN Returned(White, {})
            ELSE Returned(<<DataByte(byte_index), DataByte(byte_index + 1),
                            DataByte(byte_index + 2), DataByte(byte_index + 3)>>,
                          byte_index .. byte_index + 3)

\* TextureManager::get_pixel_color(&self, ch, tx, ty); checked is whether the
\* build panics on integer overflow.
TextureManagerGetPixelColor(imgs, checked, ch, tx, ty) ==
    IF ch \in DOMAIN imgs
    THEN IF checked /\ (SubOverflows(imgs[ch].width) \/ SubOverflows(imgs[ch].height))
         THEN Panicked
         ELSE GetPixelColor(imgs[ch], MinWithLast(tx, imgs[ch].width),
                                      MinWithLast(ty, imgs[ch].height))
    ELSE Returned(White, {})

\* A TextureManager with one image bound to 'e', in a debug or a release
\* build.
InitTextures ==
    /\ FramebufferNew(2, 2)
    /\ CasterIdle
    /\ NoEnemy
    /\ NoColor
    /\ RestIdle
    /\ \E w \in ImageWidths, h \in ImageHeights, n \in BOOLEAN :
          images = [k \in {"e"} |-> [width |-> w, height |-> h, data_null |-> n]]
    /\ overflow_checks \in BOOLEAN
    /\ tex_call = [op |-> "none"]
    /\ tex_result = [returned |-> FALSE, panic |-> FALSE, color |-> White]
    /\ tex_reads = {}

\* A call texture_manager.get_pixel_color(ch, tx, ty).
GetPixelColorCall ==
    /\ \E ch \in TexKeys, tx \in TexCoords, ty \in TexCoords :
          LET r == TextureManagerGetPixelColor(images, overflow_checks, ch, tx, ty)
          IN /\ tex_call' = [op |-> "get_pixel_color", ch |-> ch, tx |-> tx, ty |-> ty]
             /\ tex_result' = [returned |-> r.returned, panic |-> r.panic, color |-> r.color]
             /\ tex_reads' = r.reads
    /\ UNCHANGED <<images, overflow_checks>>
    /\ UNCHANGED <<fbVars, castVars, enemyVars, colorVars, restVars>>

SpecTextures == InitTextures /\ [][GetPixelColorCall]_vars

\* ------------------------------------------------------------ draw_sprite
\* The depth render_world gives the sky and the floor.
BackgroundDepth == 10000

\* `let distance_to_projection_plane = 70.0;` and the 70.0 of sprite_size
ProjectionPlane == 70

\* draw_sprite skips enemies nearer than SpriteNear or farther than SpriteFar.
SpriteNear == 50

SpriteFar == 1000

\* The sprite sheet 'a': 4 columns and 3 rows of frames.
SheetColumns == 4

SheetRows == 3

\* The frame size of the sheet explored (frame_width, frame_height).
FrameWidth == 2

FrameHeight == 1

\* angle_diff is counted in FovParts-ths of player.fov.
FovParts == 8

\* The sheet's pixels by name: the left pixel of each frame is opaque and
\* names the frame, the right pixel is the colour key (rows 0 and 1) or a
\* near-black shadow (row 2).
SheetNames ==
    << <<"I0", "I1", "I2", "I3">>,
       <<"W0", "W1", "W2", "W3">>,
       <<"A0", "A1", "A2", "A3">> >>

SheetPixel(px, py) ==
    IF px % FrameWidth = 0 THEN SheetNames[py + 1][(px \div FrameWidth) + 1]
    ELSE IF py < 2 THEN "KEY" ELSE "SHADOW"

\* The RGBA value of a named colour.
Rgba(c) ==
    IF c = "KEY" THEN TransparentColor
    ELSE IF c = "SHADOW" THEN <<10, 10, 10, 255>>
    ELSE <<200, 40, 40, 255>>

\* The frame row draw_sprite picks for an animation state.
FrameRow(state) ==
    IF state = "Idle" THEN 0 ELSE IF state = "Walking" THEN 1 ELSE 2

MinOf(a, b) == IF a < b THEN a ELSE b

\* `let sprite_size_usize = sprite_size as usize;`
SpriteSize(sp) == (ProjectionPlane * height) \div sp.sprite_d

\* `(screen_x - sprite_size / 2.0).max(0.0) as usize`
StartX(sp) ==
    AsUsize((sp.angle_diff * 2 + FovParts) * width * sp.sprite_d
                - FovParts * ProjectionPlane * height,
            2 * FovParts * sp.sprite_d)

\* `(screen_height / 2.0 - sprite_size / 2.0).max(0.0) as usize`
StartY(sp) == AsUsize(height * sp.sprite_d - ProjectionPlane * height, 2 * sp.sprite_d)

EndX(sp) == MinOf(StartX(sp) + SpriteSize(sp), width)

EndY(sp) == MinOf(StartY(sp) + SpriteSize(sp), height)

\* The early returns of draw_sprite: no line of sight, outside the field of
\* view, too near or too far.
SpriteSkipped(sp) ==
    \/ ~sp.line_of_sight
    \/ 2 * sp.angle_diff > FovParts
    \/ 2 * sp.angle_diff < -FovParts
    \/ sp.sprite_d < SpriteNear
    \/ sp.sprite_d > SpriteFar

\* The pixel <<x, y>> is visited by the two loops of draw_sprite.
SpriteCovers(sp, x, y) ==
    /\ ~SpriteSkipped(sp)
    /\ StartX(sp) <= x /\ x < EndX(sp)
    /\ StartY(sp) <= y /\ y < EndY(sp)

\* The colour sampled for the screen pixel <<x, y>> (main.rs:193-216 and
\* TextureManager::get_sprite_frame_color).
SpriteColor(sp, x, y) ==
    LET tx == ((x - StartX(sp)) * FrameWidth) \div SpriteSize(sp)
        ty == ((y - StartY(sp)) * FrameHeight) \div SpriteSize(sp)
        final_tx == IF sp.facing_left
                    THEN FrameWidth - 1 - MinOf(tx, FrameWidth - 1)
                    ELSE MinOf(tx, FrameWidth - 1)
        pixel_x == MinOf(sp.current_frame * FrameWidth + final_tx,
                         SheetColumns * FrameWidth - 1)
        pixel_y == MinOf(FrameRow(sp.animation_state) * FrameHeight
                            + MinOf(ty, FrameHeight - 1),
                         SheetRows * FrameHeight - 1)
    IN SheetPixel(pixel_x, pixel_y)

SpriteWritesOpaqueOrNot(sp, x, y) ==
    /\ SpriteCovers(sp, x, y)
    /\ DepthLess(sp.sprite_d, GetDepth(x, y))

\* draw_sprite writes the pixel: `!is_transparent_color(color)` and
\* `sprite_d < current_depth`, then set_pixel_with_depth.
SpriteWrites(sp, x, y) ==
    /\ SpriteCovers(sp, x, y)
    /\ ~IsTransparentColor(Rgba(SpriteColor(sp, x, y)))
    /\ DepthLess(sp.sprite_d, GetDepth(x, y))
    /\ SetPixelWithDepthReturns(x, y, sp.sprite_d)

\* The last pixel a set of pixels holds in the order of `for x { for y }`.
LastInLoopOrder(S) ==
    CHOOSE p \in S : \A q \in S : q[1] < p[1] \/ (q[1] = p[1] /\ q[2] <= p[2])

\* The wall stake of a column (main.rs:361-368): rows stake_top .. stake_bottom - 1.
StakeTop(dist) == AsUsize(height * dist - ProjectionPlane * height, 2 * dist)

StakeBottom(dist) == AsUsize(height * dist + ProjectionPlane * height, 2 * dist)

InStake(x, y) ==
    /\ StakeTop(wall_distance[x + 1]) <= y
    /\ y < StakeBottom(wall_distance[x + 1])

\* The colour of the sky and of the floor (performance mode).
BackgroundColorAt(y) == IF y < height \div 2 THEN "SKY" ELSE "FLOOR"

\* The depth of a pixel after the sky and floor pass of render_world.
DepthAfterBackground(x, y) ==
    IF DepthTest(BackgroundDepth, depth_buffer[PixelIndex(x, y)])
    THEN BackgroundDepth
    ELSE depth_buffer[PixelIndex(x, y)]

\* The wall pass of render_world writes the pixel.
WallWrites(x, y) ==
    /\ InStake(x, y)
    /\ DepthTest(wall_distance[x + 1], DepthAfterBackground(x, y))

\* What draw_sprite is given for one enemy: the distance and the angle to the
\* player, the result of has_line_of_sight, and the enemy's animation fields.
Sprite(d, a, los, state, frame, left) ==
    [sprite_d |-> d, angle_diff |-> a, line_of_sight |-> los,
     animation_state |-> state, current_frame |-> frame, facing_left |-> left]

\* Enemies draw_sprite draws, and enemies it skips.
SpriteSamples ==
    { Sprite(d, a, TRUE, af[1], af[2], left) :
        d \in {50, 60, 100}, a \in {0, 2},
        af \in {<<"Idle", 0>>, <<"Attack", 1>>}, left \in BOOLEAN }
    \cup { Sprite(40, 0, TRUE, "Idle", 0, FALSE),
           Sprite(1001, 0, TRUE, "Idle", 0, FALSE),
           Sprite(60, 5, TRUE, "Walking", 3, FALSE),
           Sprite(60, 0, FALSE, "Death", 3, FALSE) }

\* The distances cast_ray returns for a column.
WallDistances == {55, 300}

\* The framebuffer of the frame model.
SpriteScreen == <<4, 2>>

\* The number of enemies in the collection.
SpriteCount == 2

InitSprites ==
    /\ FramebufferNew(SpriteScreen[1], SpriteScreen[2])
    /\ CasterIdle
    /\ NoEnemy
    /\ NoColor
    /\ NoTextures
    /\ NoRender
    /\ NoFill
    /\ ExtraIdle
    /\ sprites \in [1 .. SpriteCount -> SpriteSamples]
    /\ wall_distance \in [1 .. SpriteScreen[1] -> WallDistances]
    /\ frame_pc = "clear"
    /\ next_sprite = 1

\* `framebuffer.clear();` at the top of a frame (main.rs:1203)
FrameClear ==
    /\ frame_pc = "clear"
    /\ color_buffer' = GenImageColor(width, height, background_color)
    /\ depth_buffer' = ClearedDepths(depth_buffer)
    /\ frame_pc' = "world"
    /\ UNCHANGED <<width, height, background_color, current_color, fbLog, fbOut, fbWiped>>
    /\ UNCHANGED <<sprites, wall_distance, next_sprite>>
    /\ UNCHANGED <<castVars, enemyVars, colorVars, texVars, renderVars, fillVars, extraVars>>

\* render_world in performance mode: the sky and the floor, then one wall
\* stake per column.
RenderWorld ==
    /\ frame_pc = "world"
    /\ color_buffer' =
          [p \in DOMAIN color_buffer |->
              IF WallWrites(p[1], p[2]) THEN "WALL"
              ELSE IF DepthTest(BackgroundDepth, depth_buffer[PixelIndex(p[1], p[2])])
                   THEN BackgroundColorAt(p[2])
                   ELSE color_buffer[p]]
    /\ depth_buffer' =
          [i \in DOMAIN depth_buffer |->
              IF WallWrites(i % width, i \div width)
              THEN wall_distance[(i % width) + 1]
              ELSE DepthAfterBackground(i % width, i \div width)]
    /\ current_color' = IF \E p \in Pixels : InStake(p[1], p[2]) THEN "WALL" ELSE Whitesmoke
    /\ frame_pc' = "enemies"
    /\ next_sprite' = 1
    /\ UNCHANGED <<width, height, background_color, fbLog, fbOut, fbWiped>>
    /\ UNCHANGED <<sprites, wall_distance>>
    /\ UNCHANGED <<castVars, enemyVars, colorVars, texVars, renderVars, fillVars, extraVars>>

\* draw_sprite for the next enemy of the collection.
DrawSprite ==
    /\ frame_pc = "enemies"
    /\ next_sprite <= Len(sprites)
    /\ LET sp == sprites[next_sprite]
           written == {p \in Pixels : SpriteWrites(sp, p[1], p[2])}
       IN /\ color_buffer' =
                [p \in DOMAIN color_buffer |->
                    IF p \in written THEN SpriteColor(sp, p[1], p[2]) ELSE color_buffer[p]]
          /\ depth_buffer' =
                [i \in DOMAIN depth_buffer |->
                    IF <<i % width, i \div width>> \in written
                    THEN sp.sprite_d ELSE depth_buffer[i]]
          /\ current_color' =
                IF written = {} THEN current_color
                ELSE LET q == LastInLoopOrder(written) IN SpriteColor(sp, q[1], q[2])
    /\ next_sprite' = next_sprite + 1
    /\ UNCHANGED <<width, height, background_color, fbLog, fbOut, fbWiped>>
    /\ UNCHANGED <<sprites, wall_distance, frame_pc>>
    /\ UNCHANGED <<castVars, enemyVars, colorVars, texVars, renderVars, fillVars, extraVars>>

\* The frame is shown and the next one begins.
FrameEnd ==
    /\ frame_pc = "enemies"
    /\ next_sprite > Len(sprites)
    /\ frame_pc' = "clear"
    /\ next_sprite' = 1
    /\ UNCHANGED fbVars
    /\ UNCHANGED <<sprites, wall_distance>>
    /\ UNCHANGED <<castVars, enemyVars, colorVars, texVars, renderVars, fillVars, extraVars>>

NextSprites ==
    \/ FrameClear
    \/ RenderWorld
    \/ DrawSprite
    \/ FrameEnd

SpecSprites == InitSprites /\ [][NextSprites]_vars

\* --------------------------------------------------------- render_enemies
\* `if distance_to_player < 80.0` and `else if distance_to_player < 150.0`
KillRange == 80

AttackRange == 150

RetainedAll(es) == [i \in 1 .. Len(es) |-> i]

\* The indices `enemies.retain(|enemy| !enemy.should_despawn())` keeps, in order.
Retained(es) ==
    SelectSeq([i \in 1 .. Len(es) |-> i], LAMBDA i : ~ShouldDespawn(es[i]))

\* `if distance_to_player < 80.0 { kill } else if < 150.0 { Attack }` on a
\* living enemy e1 at squared distance dsq.
CombatBands(e1, dsq) ==
    IF dsq < Deci(KillRange) * Deci(KillRange) THEN Kill(e1)
    ELSE IF dsq < Deci(AttackRange) * Deci(AttackRange) THEN SetAnimation(e1, "Attack")
    ELSE e1

RenderOneAttackFirst(e, dt, pp) ==
    CHOOSE r \in
        { [updated |-> e1,
           drawn |-> IF e1.is_dead THEN e1
                     ELSE IF DistSq(pp, e1.pos) < Deci(AttackRange) * Deci(AttackRange)
                     THEN SetAnimation(e1, "Attack")
                     ELSE e1] :
          e1 \in {Update(e, dt, pp)} } : TRUE

\* One iteration of the loop of render_enemies: the enemy after its update
\* and the enemy as passed to draw_sprite, which is how the iteration leaves it.
RenderOne(e, dt, pp) ==
    CHOOSE r \in
        { [updated |-> e1,
           drawn |-> IF e1.is_dead THEN e1
                     ELSE CHOOSE d \in { CombatBands(e1, dsq) :
                                         dsq \in {DistSq(pp, e1.pos)} } : TRUE] :
          e1 \in {Update(e, dt, pp)} } : TRUE

\* The corridor the collection lives in: floor in the bottom row, with one
\* wall cell between the first and the third column.
RenderMaze ==
    << <<"#", "#", "#", "#", "#", "#", "#", "#">>,
       <<"#", "#", "#", "#", "#", "#", "#", "#">>,
       <<" ", "#", " ", " ", " ", " ", " ", " ">> >>

\* The enemies a collection is made of.
RenderConfigs ==
    { EnemyNewChase(Deci(250), Deci(250)),
      EnemyNewChase(Deci(550), Deci(250)),
      EnemyNew(Deci(450), Deci(250)) }

\* The number of enemies created.
RenderCount == 2

\* The frame times delta_time render_enemies is called with, in milliseconds.
FrameTimes == {200}

InitRender ==
    /\ FramebufferNew(2, 2)
    /\ EnemyWorld(RenderMaze)
    /\ NoEnemy
    /\ NoColor
    /\ NoTextures
    /\ NoSprites
    /\ NoFill
    /\ ExtraIdle
    /\ enemies \in [1 .. RenderCount ->
                      {c \in RenderConfigs : IsValidEnemyPosition(RenderMaze, c.pos)}]
    /\ enemy_ids = [i \in 1 .. RenderCount |-> i]
    /\ frame_log = [op |-> "none"]

\* `for enemy in enemies.iter_mut()` from the k-th retained enemy on: the
\* iterations in order.
RECURSIVE RenderLoop(_, _, _, _, _)
RenderLoop(es, kept, k, dt, pp) ==
    IF k > Len(kept) THEN <<>>
    ELSE <<RenderOne(es[kept[k]], dt, pp)>> \o RenderLoop(es, kept, k + 1, dt, pp)

\* The collection and the record of the call after
\* render_enemies(.., enemies, .., delta_time, ..) with the player at pp.
RenderAll(es, ids, dt, pp) ==
    CHOOSE r \in
        { [enemies |-> [k \in DOMAIN done |-> done[k].drawn],
           ids |-> [k \in DOMAIN done |-> ids[kept[k]]],
           log |-> [op |-> "render_enemies", delta_time |-> dt, player |-> pp,
                    removed |-> {ids[i] : i \in (1 .. Len(es)) \
                                                {kept[k] : k \in DOMAIN kept}},
                    steps |-> [k \in DOMAIN done |->
                                  [id |-> ids[kept[k]],
                                   updated |-> done[k].updated,
                                   drawn |-> done[k].drawn]]]] :
          kept \in {Retained(es)},
          done \in {RenderLoop(es, Retained(es), 1, dt, pp)} } : TRUE

\* render_enemies(framebuffer, player, enemies, texture_cache, delta_time,
\* maze, block_size).  What draw_sprite does to the framebuffer with the
\* enemy it is passed is DrawSprite's; here the call is recorded.
RenderEnemies ==
    /\ \E dt \in FrameTimes, pp \in {p \in PlayerSpots : PlayerCanStand(maze, p)} :
          \E r \in {RenderAll(enemies, enemy_ids, dt, pp)} :
             /\ enemies' = r.enemies
             /\ enemy_ids' = r.ids
             /\ frame_log' = r.log
    /\ UNCHANGED <<fbVars, castVars, enemyVars, colorVars, texVars, spriteVars, fillVars, extraVars>>

SpecRender == InitRender /\ [][RenderEnemies]_vars

\* The game loop calls render_enemies in every frame.
SpecRenderFair == SpecRender /\ WF_vars(RenderEnemies)

\* ------------------------------------------- render_world: sky and floor
\* The framebuffer sizes the sky and floor pass is made on.
FillWidths == 1 .. 4

FillHeights == 1 .. 6

\* The number of entries of sky_colors and of floor_colors: both are filled
\* by `for j in 0..(framebuffer.height / 2)`.
GradientLen == height \div 2

\* The sky and floor pass calls set_pixel_with_depth on row y: every row in
\* performance mode; in quality mode the sky rows and the floor rows whose
\* floor_index is below floor_colors.len().
FillWritesRow(perf, y) ==
    IF perf THEN TRUE
    ELSE IF y < height \div 2 THEN TRUE
    ELSE y - height \div 2 < GradientLen

InitFill ==
    /\ \E w \in FillWidths, h \in FillHeights : FramebufferNew(w, h)
    /\ CasterIdle
    /\ NoEnemy
    /\ NoColor
    /\ NoTextures
    /\ NoSprites
    /\ NoRender
    /\ ExtraIdle
    /\ performance_mode \in BOOLEAN
    /\ fill_pc = "clear"

\* `framebuffer.clear();` at the top of a frame (main.rs:1203)
FillClear ==
    /\ fill_pc \in {"clear", "filled"}
    /\ color_buffer' = GenImageColor(width, height, background_color)
    /\ depth_buffer' = ClearedDepths(depth_buffer)
    /\ fill_pc' = "fill"
    /\ UNCHANGED <<width, height, background_color, current_color, fbLog, fbOut, fbWiped>>
    /\ UNCHANGED performance_mode
    /\ UNCHANGED <<castVars, enemyVars, colorVars, texVars, spriteVars, renderVars, extraVars>>

\* The sky and floor pass of render_world (main.rs:292-352), in either mode.
FillSkyAndFloor ==
    /\ fill_pc = "fill"
    /\ color_buffer' =
          [p \in DOMAIN color_buffer |->
              IF /\ FillWritesRow(performance_mode, p[2])
                 /\ DepthTest(BackgroundDepth, depth_buffer[PixelIndex(p[1], p[2])])
              THEN BackgroundColorAt(p[2])
              ELSE color_buffer[p]]
    /\ depth_buffer' =
          [i \in DOMAIN depth_buffer |->
              IF /\ FillWritesRow(performance_mode, i \div width)
                 /\ DepthTest(BackgroundDepth, depth_buffer[i])
              THEN BackgroundDepth
              ELSE depth_buffer[i]]
    /\ current_color' =
          IF performance_mode \/ height > 1 THEN BackgroundColorAt(height - 1)
          ELSE current_color
    /\ fill_pc' = "filled"
    /\ UNCHANGED <<width, height, background_color, fbLog, fbOut, fbWiped>>
    /\ UNCHANGED performance_mode
    /\ UNCHANGED <<castVars, enemyVars, colorVars, texVars, spriteVars, renderVars, extraVars>>

NextFill ==
    \/ FillClear
    \/ FillSkyAndFloor

SpecFill == InitFill /\ [][NextFill]_vars

\* ---------------------------------------------------------- the game loop
\* The framebuffer of the loop model.
LoopScreen == <<2, 1>>

\* What the rendering of one iteration submits for a pixel: a finite depth
\* and a colour.
SceneValues == (1 .. MaxDepth) \X Colors

InitLoop ==
    /\ FramebufferNew(LoopScreen[1], LoopScreen[2])
    /\ CasterIdle
    /\ NoEnemy
    /\ NoColor
    /\ NoTextures
    /\ NoSprites
    /\ NoRender
    /\ NoFill
    /\ NoLoader
    /\ NoLos
    /\ game_state = "Playing"
    /\ loop_pc = "top"
    /\ frame_cleared = FALSE
    /\ scene = [p \in (0 .. LoopScreen[1] - 1) \X (0 .. LoopScreen[2] - 1) |->
                  <<Infinity, "BLACK">>]

\* The head of an iteration in GameState::Playing: framebuffer.clear(), then
\* the keys; ESC makes the state Paused for the next iteration.
PlayingTop ==
    /\ loop_pc = "top"
    /\ game_state = "Playing"
    /\ color_buffer' = GenImageColor(width, height, background_color)
    /\ depth_buffer' = ClearedDepths(depth_buffer)
    /\ frame_cleared' = TRUE
    /\ game_state' \in {"Playing", "Paused"}
    /\ loop_pc' = "render"
    /\ UNCHANGED <<width, height, background_color, current_color, fbLog, fbOut, fbWiped>>
    /\ UNCHANGED scene
    /\ UNCHANGED <<castVars, enemyVars, colorVars, texVars, spriteVars, renderVars,
                   fillVars, loaderVars, losVars>>

\* The head of an iteration in GameState::Paused: the menu keys; ESC makes
\* the state Playing for the next iteration.  The framebuffer is not cleared.
PausedTop ==
    /\ loop_pc = "top"
    /\ game_state = "Paused"
    /\ frame_cleared' = FALSE
    /\ game_state' \in {"Playing", "Paused"}
    /\ loop_pc' = "render"
    /\ UNCHANGED fbVars
    /\ UNCHANGED scene
    /\ UNCHANGED <<castVars, enemyVars, colorVars, texVars, spriteVars, renderVars,
                   fillVars, loaderVars, losVars>>

\* render_world and render_enemies, called in both states: for each pixel
\* the nearest value they submit goes through set_pixel_with_depth.
LoopRender ==
    /\ loop_pc = "render"
    /\ \E sc \in [Pixels -> SceneValues] :
          /\ scene' = sc
          /\ color_buffer' =
                [p \in DOMAIN color_buffer |->
                    IF DepthTest(sc[p][1], depth_buffer[PixelIndex(p[1], p[2])])
                    THEN sc[p][2] ELSE color_buffer[p]]
          /\ depth_buffer' =
                [i \in DOMAIN depth_buffer |->
                    IF DepthTest(sc[<<i % width, i \div width>>][1], depth_buffer[i])
                    THEN sc[<<i % width, i \div width>>][1] ELSE depth_buffer[i]]
    /\ loop_pc' = "present"
    /\ UNCHANGED <<width, height, background_color, current_color, fbLog, fbOut, fbWiped>>
    /\ UNCHANGED <<game_state, frame_cleared>>
    /\ UNCHANGED <<castVars, enemyVars, colorVars, texVars, spriteVars, renderVars,
                   fillVars, loaderVars, losVars>>

\* The framebuffer is shown and the next iteration begins.
LoopPresent ==
    /\ loop_pc = "present"
    /\ loop_pc' = "top"
    /\ UNCHANGED fbVars
    /\ UNCHANGED <<game_state, frame_cleared, scene>>
    /\ UNCHANGED <<castVars, enemyVars, colorVars, texVars, spriteVars, renderVars,
                   fillVars, loaderVars, losVars>>

NextLoop ==
    \/ PlayingTop
    \/ PausedTop
    \/ LoopRender
    \/ LoopPresent

SpecLoop == InitLoop /\ [][NextLoop]_vars

\* -------------------------------------------------- load_maze_with_player
\* The characters of the map files explored and the longest file.
MapChars == {" ", "p", "#", "\n"}

MaxFileLen == 5

\* The files of at most MaxFileLen characters.
MapFiles == UNION { [1 .. n -> MapChars] : n \in 0 .. MaxFileLen }

\* BufRead::lines(): the text up to each line feed; a line feed at the end
\* of the file does not begin another line.
RECURSIVE SplitLinesKeepsLast(_, _, _)
SplitLinesKeepsLast(text, k, line) ==
    IF k > Len(text) THEN <<line>>
    ELSE IF text[k] = "\n" THEN <<line>> \o SplitLinesKeepsLast(text, k + 1, <<>>)
    ELSE SplitLinesKeepsLast(text, k + 1, Append(line, text[k]))

RECURSIVE SplitLines(_, _, _)
SplitLines(text, k, line) ==
    IF k > Len(text) THEN (IF line = <<>> /\ (k = 1 \/ text[k - 1] = "\n") THEN <<>> ELSE <<line>>)
    ELSE IF text[k] = "\n" THEN <<line>> \o SplitLines(text, k + 1, <<>>)
    ELSE SplitLines(text, k + 1, Append(line, text[k]))

\* The columns of a row that hold 'p', counted from 0.
SpawnColumns(row) == {c \in 0 .. Len(row) - 1 : row[c + 1] = "p"}

LeastOf(S) == CHOOSE c \in S : \A d \in S : c <= d

\* The centre of the cell in the given row and column, in world units.
CellCentre(col_index, row_index, bs) ==
    <<col_index * bs + bs \div 2, row_index * bs + bs \div 2>>

\* The two loops of load_maze_with_player from row row_index on: in each row
\* the first 'p' sets player_start and `break` leaves the row; the loop over
\* the rows goes on.
RECURSIVE FindPlayerStart(_, _, _, _)
FindPlayerStart(m, row_index, bs, start) ==
    IF row_index >= Len(m) THEN start
    ELSE FindPlayerStart(m, row_index + 1, bs,
            IF SpawnColumns(m[row_index + 1]) # {}
            THEN CellCentre(LeastOf(SpawnColumns(m[row_index + 1])), row_index, bs)
            ELSE start)

\* load_maze_with_player(filename, block_size)
LoadMazeWithPlayer(text, bs) ==
    [loaded |-> TRUE,
     maze |-> SplitLines(text, 1, <<>>),
     player_start |-> FindPlayerStart(SplitLines(text, 1, <<>>), 0, bs, <<150, 150>>)]

InitLoader ==
    /\ FramebufferNew(2, 2)
    /\ CasterIdle
    /\ NoEnemy
    /\ NoColor
    /\ NoTextures
    /\ NoSprites
    /\ NoRender
    /\ NoFill
    /\ NoLoop
    /\ NoLos
    /\ map_text \in MapFiles
    /\ maze_data = [loaded |-> FALSE, maze |-> <<>>, player_start |-> <<0, 0>>]

\* `maze_data = Some(load_maze_with_player(filename, block_size))`
LoadMap ==
    /\ ~maze_data.loaded
    /\ maze_data' = LoadMazeWithPlayer(map_text, BlockSize)
    /\ UNCHANGED map_text
    /\ UNCHANGED <<fbVars, castVars, enemyVars, colorVars, texVars, spriteVars,
                   renderVars, fillVars, loopVars, losVars>>

SpecLoader == InitLoader /\ [][LoadMap]_vars

\* ------------------------------------------------------ has_line_of_sight
\* The grid of the sight tests: a spawn cell, a goal cell and one wall.
LosMaze ==
    << <<"p", " ", "g", " ">>,
       <<" ", "#", " ", " ">> >>

\* Where the player and the enemy stand, in world units: the centres of
\* the walkable cells and two points off the centres.
LosPoints ==
    {<<50, 50>>, <<150, 50>>, <<250, 50>>, <<350, 50>>,
     <<50, 150>>, <<250, 150>>, <<350, 150>>, <<120, 80>>, <<330, 170>>}

\* `steps = (distance / (block_size as f32 * 0.25)) as i32`
LosSteps(from, to, bs) ==
    Sqrt((16 * ((to[1] - from[1]) * (to[1] - from[1])
                + (to[2] - from[2]) * (to[2] - from[2]))) \div (bs * bs))

\* `((from + d * t) / block_size as f32) as usize` with t = i / steps, and
\* t = 0 when steps = 0, on one axis.
LosIndex(from, to, i, steps, bs) ==
    IF steps = 0 THEN AsUsize(from, bs)
    ELSE AsUsize(from * steps + (to - from) * i, bs * steps)

\* The sample i of the segment is inside the grid and its cell is not ' '.
LosBlockedAt(from, to, m, bs, i, steps) ==
    /\ LosIndex(from[2], to[2], i, steps, bs) < Len(m)
    /\ LosIndex(from[1], to[1], i, steps, bs) < Len(m[1])
    /\ m[LosIndex(from[2], to[2], i, steps, bs) + 1]
        [LosIndex(from[1], to[1], i, steps, bs) + 1] # " "

\* has_line_of_sight(from, to, maze, block_size)
HasLineOfSight(from, to, m, bs) ==
    \A i \in 0 .. LosSteps(from, to, bs) :
        ~LosBlockedAt(from, to, m, bs, i, LosSteps(from, to, bs))

InitLos ==
    /\ FramebufferNew(2, 2)
    /\ EnemyWorld(LosMaze)
    /\ NoEnemy
    /\ NoColor
    /\ NoTextures
    /\ NoSprites
    /\ NoRender
    /\ NoFill
    /\ NoLoop
    /\ NoLoader
    /\ los_from \in LosPoints
    /\ los_to \in LosPoints
    /\ los_result = <<>>

\* `if !has_line_of_sight(player.pos, enemy.pos, maze, block_size) { return; }`
HasLineOfSightCall ==
    /\ los_result = <<>>
    /\ los_result' = <<HasLineOfSight(los_from, los_to, maze, block_size)>>
    /\ UNCHANGED <<los_from, los_to>>
    /\ UNCHANGED <<fbVars, castVars, enemyVars, colorVars, texVars, spriteVars,
                   renderVars, fillVars, loopVars, loaderVars>>

SpecLos == InitLos /\ [][HasLineOfSightCall]_vars

\* ------------------------------------------------- claims on the framebuffer
IsDepthWrite(e) == e.op = "set_pixel_with_depth"

OnlyDepthWrites(log) == \A k \in 1 .. Len(log) : IsDepthWrite(log[k])

\* The minimum depth submitted in a non-empty log of depth writes.
MinSubmitted(log) ==
    CHOOSE d \in {log[k].depth : k \in 1 .. Len(log)} :
        \A k \in 1 .. Len(log) : d <= log[k].depth

\* The first call of the log that submitted depth d.
FirstWith(log, d) ==
    CHOOSE k \in 1 .. Len(log) :
        /\ log[k].depth = d
        /\ \A j \in 1 .. k - 1 : log[j].depth # d

\* The depth the last successful write of the log stored (+infinity if none).
LastStored(log) ==
    LET wrote == {k \in 1 .. Len(log) : IsDepthWrite(log[k]) /\ log[k].ret}
    IN IF wrote = {} THEN Infinity
       ELSE log[CHOOSE k \in wrote : \A j \in wrote : j <= k].depth

\* C1: for every in-bounds pixel on which only set_pixel_with_depth was called
\* since the last clear(), the stored depth is the minimum depth submitted so
\* far and the stored colour is the colour that was current at the first call
\* that submitted that minimum (first writer wins ties).
C1_DepthIsMinimum ==
    \A p \in Pixels :
        (fbLog[p] # <<>> /\ OnlyDepthWrites(fbLog[p])) =>
            /\ ~IndexPanics(p[1], p[2])
            /\ GetDepth(p[1], p[2]) = MinSubmitted(fbLog[p])
            /\ color_buffer[p] = fbLog[p][FirstWith(fbLog[p], MinSubmitted(fbLog[p]))].color

\* A pixel that received the same depth twice under two different colours.
C1_Witness ==
    \E p \in Pixels :
        /\ Len(fbLog[p]) >= 2
        /\ OnlyDepthWrites(fbLog[p])
        /\ fbLog[p][1].depth = fbLog[p][2].depth
        /\ fbLog[p][1].color # fbLog[p][2].color

\* C2: set_pixel_with_depth(x, y, depth) returns true exactly when depth is
\* strictly less than the depth stored at (x, y); then it stores depth and the
\* current draw colour at (x, y) and nowhere else; when it returns false
\* (equal or larger depth, or out-of-bounds coordinates) neither buffer changes.
C2_WriteIffStrictlyLess ==
    [][/\ \A p \in Pixels :
            (/\ Len(fbLog'[p]) = Len(fbLog[p]) + 1
             /\ IsDepthWrite(fbLog'[p][Len(fbLog'[p])])) =>
                LET e == fbLog'[p][Len(fbLog'[p])]
                IN /\ ~e.panic
                   /\ e.ret <=> (e.depth < GetDepth(p[1], p[2]))
                   /\ e.ret =>
                        /\ depth_buffer' =
                             [depth_buffer EXCEPT ![p[2] * width + p[1]] = e.depth]
                        /\ color_buffer' = [color_buffer EXCEPT ![p] = current_color]
                   /\ ~e.ret => UNCHANGED <<depth_buffer, color_buffer>>
       /\ fbOut' # {} =>
            /\ fbOut' = {FALSE}
            /\ fbOut' # fbOut => UNCHANGED <<depth_buffer, color_buffer>>
      ]_vars

\* A pixel refused a write of the depth it already stores, and an out-of-bounds
\* call was made.
C2_Witness ==
    /\ fbOut = {FALSE}
    /\ \E p \in Pixels :
        /\ Len(fbLog[p]) = 2
        /\ OnlyDepthWrites(fbLog[p])
        /\ fbLog[p][1].ret
        /\ ~fbLog[p][2].ret
        /\ fbLog[p][2].depth = fbLog[p][1].depth

\* C3: the only set_pixel_with_depth call made since clear() (or since
\* construction), on any pixel of the framebuffer and with a finite depth,
\* returned true, whatever was written before the clear.
C3_FirstWriteAfterClearSucceeds ==
    \A p \in Pixels :
        (LogTotal = 1 /\ Len(fbLog[p]) = 1 /\ IsDepthWrite(fbLog[p][1])) =>
            /\ fbLog[p][1].depth < Infinity
            /\ fbLog[p][1].ret

\* A first write after a clear() that erased earlier depth writes.
C3_Witness ==
    /\ fbWiped
    /\ LogTotal = 1
    /\ \E p \in Pixels :
        /\ Len(fbLog[p]) = 1
        /\ IsDepthWrite(fbLog[p][1])
        /\ fbLog[p][1].ret

\* C4: get_depth(x, y) returns the depth last stored at (x, y) for in-bounds
\* coordinates and +infinity for every out-of-bounds pair, and never indexes
\* outside the depth vector.  (It takes &self: GetDepth is an operator of the
\* state and changes nothing.)
C4_GetDepthTotal ==
    \A x \in XCoords, y \in YCoords :
        /\ ~IndexPanics(x, y)
        /\ GetDepth(x, y) =
             IF x < width /\ y < height THEN LastStored(fbLog[<<x, y>>]) ELSE Infinity

\* An out-of-bounds pair whose row-major index falls on a written pixel, next
\* to an in-bounds pixel that holds a finite depth.
C4_Witness ==
    /\ height > 1
    /\ depth_buffer[width] # Infinity
    /\ GetDepth(width, 0) = Infinity
    /\ \E p \in Pixels : GetDepth(p[1], p[2]) \in FiniteDepths

\* ------------------------------------------------------ claims on the caster
\* Floor and spawn cells let a ray through; every other cell stops it.
RayPasses(c) == c \in {" ", "p"}

GridCells == (0 .. Rows(maze) - 1) \X (0 .. Cols(maze) - 1)

\* The wall characters that occur in the grid.
WallChars == {Cell(maze, q[1], q[2]) : q \in {r \in GridCells : ~RayPasses(Cell(maze, r[1], r[2]))}}

\* The sample at distance k has a negative coordinate or lies in no cell.
SampleOut(k) ==
    \/ RayX(k) < 0
    \/ RayY(k) < 0
    \/ (RayY(k) \div cast_a[3]) \div block_size >= Rows(maze)
    \/ (RayX(k) \div cast_a[3]) \div block_size >= Cols(maze)

\* The cell <<row, column>> that holds the sample at distance k.
SampleCell(k) ==
    <<(RayY(k) \div cast_a[3]) \div block_size, (RayX(k) \div cast_a[3]) \div block_size>>

\* cast_ray returned a wall hit, not the boundary sentinel.
WallHit == cast_pc = "done" /\ ~SampleOut(cast_d)

\* C5: from every camera position strictly inside a floor cell and for every
\* cast angle, cast_ray returns after finitely many steps without faulting,
\* and the impact returned is a wall character of the map or the sentinel '+'.
C5_CastTerminates ==
    /\ <>(cast_pc = "done")
    /\ [](cast_pc # "panic")
    /\ [](cast_pc = "done" => intersect.impact \in WallChars \cup {"+"})

\* A cast that returned the wall '#' after marching more than a cell.
C5_Witness ==
    /\ cast_pc = "done"
    /\ intersect.impact = "#"
    /\ intersect.distance > block_size

\* C6: the distance is never negative and always equals the number of unit
\* steps marched so far; the distance returned is the number of steps marched
\* before the terminating sample.
C6_DistanceIsStepCount ==
    /\ cast_d >= 0
    /\ cast_d = cast_steps
    /\ cast_pc = "done" => intersect.distance = cast_steps

\* A cast that returned after marching some steps.
C6_Witness == cast_pc = "done" /\ cast_steps > 3 /\ intersect.distance = cast_steps

\* Rationals <<n, d>> with d > 0, for distances along the ray.
RLess(a, b) == a[1] * b[2] < b[1] * a[2]

RMax(a, b) == IF RLess(a, b) THEN b ELSE a

RMin(a, b) == IF RLess(a, b) THEN a ELSE b

\* A distance beyond every cell of the grid.
Far == <<2 * block_size * (Rows(maze) + Cols(maze)), 1>>

\* The distances along the ray at which its coordinate on one axis (start p,
\* direction component c over h) enters and leaves the range lo .. hi.
AxisEnter(p, c, h, lo, hi) ==
    IF c > 0 THEN <<(lo - p) * h, c>>
    ELSE IF c < 0 THEN <<(p - hi) * h, -c>>
    ELSE <<0, 1>>

AxisLeave(p, c, h, lo, hi) ==
    IF c > 0 THEN <<(hi - p) * h, c>>
    ELSE IF c < 0 THEN <<(p - lo) * h, -c>>
    ELSE Far

\* Where the ray enters and leaves the square of cell q = <<row, column>>.
Enter(q) ==
    RMax(<<0, 1>>,
         RMax(AxisEnter(player_pos[1], cast_a[1], cast_a[3],
                        q[2] * block_size, (q[2] + 1) * block_size),
              AxisEnter(player_pos[2], cast_a[2], cast_a[3],
                        q[1] * block_size, (q[1] + 1) * block_size)))

Leave(q) ==
    RMin(AxisLeave(player_pos[1], cast_a[1], cast_a[3],
                   q[2] * block_size, (q[2] + 1) * block_size),
         AxisLeave(player_pos[2], cast_a[2], cast_a[3],
                   q[1] * block_size, (q[1] + 1) * block_size))

\* The ray passes through the inside of cell q.
Crosses(q) ==
    /\ cast_a[1] = 0 =>
         (q[2] * block_size < player_pos[1] /\ player_pos[1] < (q[2] + 1) * block_size)
    /\ cast_a[2] = 0 =>
         (q[1] * block_size < player_pos[2] /\ player_pos[2] < (q[1] + 1) * block_size)
    /\ RLess(Enter(q), Leave(q))

\* The wall cells the ray passes through before it enters cell q.
WallsBefore(q) ==
    {w \in GridCells :
        /\ w # q
        /\ ~RayPasses(Cell(maze, w[1], w[2]))
        /\ Crosses(w)
        /\ RLess(Enter(w), Enter(q))}

\* The distance d is within one step after the ray enters cell q.
WithinOneStep(d, q) ==
    /\ ~RLess(<<d, 1>>, Enter(q))
    /\ ~RLess(<<Enter(q)[1] + Enter(q)[2], Enter(q)[2]>>, <<d, 1>>)

\* C7 as stated: a reported wall hit is the first non-floor, non-spawn cell the
\* ray passes through, at a distance within one step of its near face.
C7_HitIsFirstWallOnRay ==
    WallHit =>
        /\ WallsBefore(SampleCell(cast_d)) = {}
        /\ intersect.impact = Cell(maze, SampleCell(cast_d)[1], SampleCell(cast_d)[2])
        /\ WithinOneStep(intersect.distance, SampleCell(cast_d))

\* C7 amended: a reported wall hit is the cell of the first unit-step sample
\* that lies in a non-floor, non-spawn cell, at a distance within one step of
\* where the ray enters that cell; every wall cell the ray passed through
\* before it was crossed over at most one step, between two samples.
C7_HitIsFirstSampledWall ==
    WallHit =>
        /\ \A k \in 0 .. cast_d - 1 :
               ~SampleOut(k) /\ RayPasses(Cell(maze, SampleCell(k)[1], SampleCell(k)[2]))
        /\ ~RayPasses(intersect.impact)
        /\ intersect.impact = Cell(maze, SampleCell(cast_d)[1], SampleCell(cast_d)[2])
        /\ WithinOneStep(intersect.distance, SampleCell(cast_d))
        /\ \A w \in WallsBefore(SampleCell(cast_d)) :
               ~RLess(<<Enter(w)[1] + Enter(w)[2], Enter(w)[2]>>, Leave(w))

\* A wall hit reported although the ray clipped another wall cell before it.
C7_Witness ==
    /\ WallHit
    /\ WallsBefore(SampleCell(cast_d)) # {}
    /\ intersect.distance > 0

\* C8: cast_ray never marches past a sample with a negative coordinate or
\* outside the grid: at the first such sample it returns the sentinel with the
\* current distance and texture index 0; and every maze[j][i] it reads has its
\* row and column inside the grid.
C8_SentinelAtBoundary ==
    /\ cast_pc # "panic"
    /\ cast_reads \subseteq GridCells
    /\ \A k \in 0 .. cast_d - 1 : ~SampleOut(k)
    /\ (cast_pc = "done" /\ SampleOut(cast_d)) => intersect = Sentinel(cast_d)

\* A cast that left the grid through a negative coordinate after some steps.
C8_Witness ==
    /\ cast_pc = "done"
    /\ cast_d > 0
    /\ RayX(cast_d) < 0
    /\ intersect = [distance |-> cast_d, impact |-> "+", tx |-> 0]

\* ------------------------------------------------------ claims on the enemy
\* C9: Death is absorbing: once kill() has been invoked on the enemy, its
\* animation state is Death after every later sequence of set_animation,
\* update and kill calls, whatever its movement pattern.
C9_DeathIsAbsorbing == enemy_killed => enemy.animation_state = "Death"

\* A killed enemy that was updated until its death animation reached the
\* last frame.
C9_Witness ==
    /\ enemy_killed
    /\ enemy.death_timer > FrameDuration
    /\ enemy.current_frame = MaxFrames - 1

LivingPatrol == enemy.movement_pattern = "Patrol" /\ ~enemy.is_dead

\* Less than 10 world units apart.
Within10(p, q) ==
    (q[1] - p[1]) * (q[1] - p[1]) + (q[2] - p[2]) * (q[2] - p[2]) < Deci(10) * Deci(10)

OtherEndpoint(t) == IF t = enemy.patrol_end THEN enemy.patrol_start ELSE enemy.patrol_end

\* The active target is one of the two endpoints.
PatrolTargetIsEndpoint ==
    LivingPatrol => enemy.target_pos \in {enemy.patrol_start, enemy.patrol_end}

\* A living patrol's target changes only when the enemy is within 10 units
\* of it, and then to the other endpoint; the endpoints never change.
PatrolFlipsOnlyAtTarget ==
    LivingPatrol /\ LivingPatrol' =>
        /\ enemy'.patrol_start = enemy.patrol_start
        /\ enemy'.patrol_end = enemy.patrol_end
        /\ enemy'.target_pos # enemy.target_pos =>
              /\ Within10(enemy.pos, enemy.target_pos)
              /\ enemy'.target_pos = OtherEndpoint(enemy.target_pos)
              /\ enemy'.pos = enemy.pos

\* The enemy is a living patrol within 10 units of its target.
PatrolAtTarget == LivingPatrol /\ Within10(enemy.pos, enemy.target_pos)

PatrolTargets(t) == ~LivingPatrol \/ enemy.target_pos = t

\* A living patrol within 10 units of its target B gets A as target (or
\* dies first).
PatrolFlipsAtEnd ==
    (PatrolAtTarget /\ enemy.target_pos = enemy.patrol_end)
        ~> PatrolTargets(enemy.patrol_start)

\* A living patrol within 10 units of its target A gets B as target (or
\* dies first).
PatrolFlipsAtStart ==
    (PatrolAtTarget /\ enemy.target_pos = enemy.patrol_start)
        ~> PatrolTargets(enemy.patrol_end)

\* Some frame's move toward the target is rejected by the collision test.
PatrolBlocked ==
    /\ LivingPatrol
    /\ ~Within10(enemy.pos, enemy.target_pos)
    /\ \E dt \in DeltaTimes : Update(enemy, dt, enemy.pos).pos = enemy.pos

\* C10 as stated: a living Patrol enemy has A or B as target, starts with B,
\* flips on coming within 10 units of the target, and keeps alternating
\* between the two targets indefinitely over repeated updates.
C10_PatrolAlternatesForever ==
    /\ LivingPatrol => enemy.target_pos = enemy.patrol_end
    /\ [](PatrolTargetIsEndpoint)
    /\ [][PatrolFlipsOnlyAtTarget]_vars
    /\ []<>(~LivingPatrol \/ enemy.target_pos = enemy.patrol_start)
    /\ []<>(~LivingPatrol \/ enemy.target_pos = enemy.patrol_end)

\* C10, amended: a living Patrol enemy has A or B as target, starts with B,
\* changes target only when within 10 units of it and then to the other
\* endpoint, does change it once it is within 10 units, and keeps alternating
\* indefinitely unless the collision test rejects a move toward the target.
C10_PatrolAlternatesUnlessBlocked ==
    /\ LivingPatrol => enemy.target_pos = enemy.patrol_end
    /\ [](PatrolTargetIsEndpoint)
    /\ [][PatrolFlipsOnlyAtTarget]_vars
    /\ PatrolFlipsAtEnd
    /\ PatrolFlipsAtStart
    /\ []<>(~LivingPatrol \/ PatrolBlocked \/ enemy.target_pos = enemy.patrol_start)
    /\ []<>(~LivingPatrol \/ PatrolBlocked \/ enemy.target_pos = enemy.patrol_end)

\* A living patrol that walked to B, back to within 10 units of A, and got
\* B as target again.
C10_Witness ==
    /\ LivingPatrol
    /\ enemy.patrol_end[1] > enemy.patrol_start[1]
    /\ enemy.facing_left
    /\ Within10(enemy.pos, enemy.patrol_start)
    /\ enemy.target_pos = enemy.patrol_end

\* The patrol of the end-to-end scenario: start (0,0), end (100,0).
ScenarioPatrol ==
    /\ enemy.movement_pattern = "Patrol"
    /\ enemy.patrol_start = Vec(0, 0)
    /\ enemy.patrol_end = Vec(100, 0)

\* C11: the patrol from (0,0) to (100,0) on unobstructed floor never moves
\* back in x while its target is the end point, and never moves forward in x
\* while its target is the start point; it stays on the line y = 0.
C11_PatrolXMonotone ==
    [][ScenarioPatrol =>
          /\ enemy.target_pos = enemy.patrol_end => enemy'.pos[1] >= enemy.pos[1]
          /\ enemy.target_pos = enemy.patrol_start => enemy'.pos[1] <= enemy.pos[1]
          /\ enemy'.pos[2] = 0]_vars

\* The scenario patrol on its way back, between the two thresholds.
C11_Witness ==
    /\ ScenarioPatrol
    /\ enemy_last.op = "update"
    /\ enemy.target_pos = enemy.patrol_start
    /\ enemy.facing_left
    /\ enemy.pos[1] > Deci(20)
    /\ enemy.pos[1] < Deci(80)

\* A living Chase enemy is being updated in this step.
ChaseUpdateStep ==
    /\ enemy.movement_pattern = "Chase"
    /\ ~enemy.is_dead
    /\ enemy_last'.op = "update"

\* The square of the distance from the enemy to the point q.
SqDistanceTo(q) ==
    (q[1] - enemy.pos[1]) * (q[1] - enemy.pos[1])
        + (q[2] - enemy.pos[2]) * (q[2] - enemy.pos[2])

BelowChaseBand(q) == SqDistanceTo(q) < Deci(20) * Deci(20)

AboveChaseBand(q) == SqDistanceTo(q) > Deci(300) * Deci(300)

InsideChaseBand(q) ==
    SqDistanceTo(q) > Deci(20) * Deci(20) /\ SqDistanceTo(q) < Deci(300) * Deci(300)

\* The step displaces the enemy in the direction of q.
MovesToward(q) ==
    (enemy'.pos[1] - enemy.pos[1]) * (q[1] - enemy.pos[1])
        + (enemy'.pos[2] - enemy.pos[2]) * (q[2] - enemy.pos[2]) > 0

\* Some corner of the 20-unit square around p falls, by the index the code
\* computes for it, in a cell other than ' ' or in no cell of the grid.
CornerBlocked(p) ==
    \E sx \in {-1, 1}, sy \in {-1, 1} :
        LET cx == p[1] + sx * Deci(20)
            cy == p[2] + sy * Deci(20)
            i == IF cx < 0 THEN 0 ELSE cx \div Deci(block_size)
            j == IF cy < 0 THEN 0 ELSE cy \div Deci(block_size)
        IN \/ j >= Len(maze)
           \/ i >= Len(maze[1])
           \/ maze[j + 1][i + 1] # " "

\* The position a move of one frame toward q proposes.
ProposedToward(q, speed, dt) ==
    LET dx == q[1] - enemy.pos[1]
        dy == q[2] - enemy.pos[2]
        dist == Sqrt(dx * dx + dy * dy)
        move == MoveDistance(speed, dt)
    IN <<enemy.pos[1] + MoveAlong(dx, dist, move), enemy.pos[2] + MoveAlong(dy, dist, move)>>

\* C12 as stated: an update leaves a living Chase enemy where it is when the
\* player is nearer than 20 or farther than 300, and moves it toward the
\* player when the distance is inside the band.
C12_ChaseMovesInsideBand ==
    [][ChaseUpdateStep =>
          /\ BelowChaseBand(enemy_last'.pp) \/ AboveChaseBand(enemy_last'.pp)
                => enemy'.pos = enemy.pos
          /\ InsideChaseBand(enemy_last'.pp) => MovesToward(enemy_last'.pp)]_vars

\* C12, amended: an update leaves a living Chase enemy where it is when the
\* player is nearer than 20 or farther than 300; inside the band it moves the
\* enemy toward the player by one frame's step when no corner of the margin
\* square at the new position is blocked, and leaves it in place otherwise.
C12_ChaseMovesInsideBandUnlessBlocked ==
    [][ChaseUpdateStep =>
          /\ BelowChaseBand(enemy_last'.pp) \/ AboveChaseBand(enemy_last'.pp)
                => enemy'.pos = enemy.pos
          /\ InsideChaseBand(enemy_last'.pp) =>
                \E dt \in DeltaTimes :
                    LET new_pos == ProposedToward(enemy_last'.pp, enemy.movement_speed, dt)
                    IN IF CornerBlocked(new_pos)
                       THEN enemy'.pos = enemy.pos
                       ELSE enemy'.pos = new_pos /\ MovesToward(enemy_last'.pp)]_vars

\* A living Chase enemy that has moved and was then updated with the player
\* more than 300 away.
C12_Witness ==
    /\ enemy.movement_pattern = "Chase"
    /\ ~enemy.is_dead
    /\ enemy_last.op = "update"
    /\ enemy.pos # Vec(250, 250)
    /\ AboveChaseBand(enemy_last.pp)

\* The same with the player nearer than 20.
ChaseUpdatedBelowBand ==
    /\ enemy.movement_pattern = "Chase"
    /\ ~enemy.is_dead
    /\ enemy_last.op = "update"
    /\ BelowChaseBand(enemy_last.pp)

\* Some corner of the 20-unit square around p has a negative coordinate, or
\* lies outside the grid, or lies in a cell that is not floor, spawn or goal.
CornerInWallOrOutside(p) ==
    \E sx \in {-1, 1}, sy \in {-1, 1} :
        LET cx == p[1] + sx * Deci(20)
            cy == p[2] + sy * Deci(20)
        IN \/ cx < 0
           \/ cy < 0
           \/ cy \div Deci(block_size) >= Len(maze)
           \/ cx \div Deci(block_size) >= Len(maze[1])
           \/ maze[cy \div Deci(block_size) + 1][cx \div Deci(block_size) + 1]
                 \notin {" ", "p", "g"}

\* The step is an update of a living Patrol or Chase enemy that proposes a
\* move toward q.
ProposesMoveToward(q) ==
    /\ ~enemy.is_dead
    /\ enemy_last'.op = "update"
    /\ \/ /\ enemy.movement_pattern = "Patrol"
          /\ q = enemy.target_pos
          /\ ~Within10(enemy.pos, q)
       \/ /\ enemy.movement_pattern = "Chase"
          /\ q = enemy_last'.pp
          /\ InsideChaseBand(q)

\* The point a living Patrol or Chase enemy heads for in this step.
Heading == IF enemy.movement_pattern = "Chase" THEN enemy_last'.pp ELSE enemy.target_pos

\* C13: a proposed new position is rejected (position unchanged, animation
\* Idle) exactly when one of the four corners of the 20-unit margin square
\* around it lies in a wall cell or outside the grid, negative coordinates
\* included, where floor, spawn and goal cells are not walls; otherwise it
\* becomes the enemy's position.
C13_RejectedIffCornerInWall ==
    [][ProposesMoveToward(Heading) =>
          \E dt \in DeltaTimes :
              LET new_pos == ProposedToward(Heading, enemy.movement_speed, dt)
              IN IF CornerInWallOrOutside(new_pos)
                 THEN enemy'.pos = enemy.pos /\ enemy'.animation_state = "Idle"
                 ELSE enemy'.pos = new_pos]_vars

\* What the code does instead: the test of C13 with the cell index the code
\* computes (a negative coordinate gives index 0) and every cell other than
\* ' ' blocking.
RejectedIffCornerNotFloor ==
    [][ProposesMoveToward(Heading) =>
          \E dt \in DeltaTimes :
              LET new_pos == ProposedToward(Heading, enemy.movement_speed, dt)
              IN IF CornerBlocked(new_pos)
                 THEN enemy'.pos = enemy.pos /\ enemy'.animation_state = "Idle"
                 ELSE enemy'.pos = new_pos]_vars

\* kill() on a living enemy: Death animation, frame 0, both timers 0.
KillStartsDeath ==
    enemy_last'.op = "kill" /\ ~enemy.is_dead =>
        /\ enemy'.is_dead
        /\ enemy'.animation_state = "Death"
        /\ enemy'.current_frame = 0
        /\ enemy'.animation_timer = 0
        /\ enemy'.death_timer = 0

\* No call moves, retargets or turns a dead enemy; its Death frame index
\* never decreases and never passes 3; no kill() changes it.
DeadStaysPut ==
    enemy.is_dead =>
        /\ enemy'.is_dead
        /\ enemy'.pos = enemy.pos
        /\ enemy'.target_pos = enemy.target_pos
        /\ enemy'.facing_left = enemy.facing_left
        /\ enemy'.animation_state = "Death"
        /\ enemy'.current_frame >= enemy.current_frame
        /\ enemy'.current_frame <= 3
        /\ enemy_last'.op = "update"

\* C14: kill() on a living enemy sets the Death animation and resets frame
\* index, animation timer and death timer to 0; afterwards every update
\* leaves position, target and facing unchanged, the Death frame index never
\* decreases and comes to rest at the last frame 3; a second kill() changes
\* nothing.
C14_KillLifecycle ==
    /\ [][KillStartsDeath /\ DeadStaysPut]_vars
    /\ enemy.is_dead ~> (enemy.is_dead /\ enemy.current_frame = 3)

\* A dead enemy at rest on the last Death frame, updated after the kill.
C14_Witness ==
    /\ enemy.is_dead
    /\ enemy_last.op = "update"
    /\ enemy.current_frame = 3
    /\ enemy.death_timer > 1000
    /\ enemy.pos # enemy.patrol_start

\* The frame index the animation timer counts on from in this update: the
\* movement code restarts the animation at frame 0 when it changes the state.
FrameBase ==
    IF enemy'.animation_state = enemy.animation_state THEN enemy.current_frame ELSE 0

\* The frame index one step after b: no wrap for the Death animation of a
\* dead enemy.
FrameAfter(b) ==
    IF enemy'.is_dead /\ enemy'.animation_state = "Death"
    THEN IF b < 3 THEN b + 1 ELSE 3
    ELSE IF b < 3 THEN b + 1 ELSE 0

\* In an update the timer is back at 0 exactly when it reached the frame
\* duration, and the frame index then advances by one.
FrameAdvancesOnTimer ==
    enemy_last'.op = "update" =>
        /\ enemy'.animation_timer < 200
        /\ enemy.animation_timer > 0 /\ enemy'.animation_state = enemy.animation_state
              => enemy'.animation_timer = 0
        /\ enemy'.current_frame =
              IF enemy'.animation_timer = 0 THEN FrameAfter(FrameBase) ELSE FrameBase

\* C17: after any sequence of update, set_animation and kill calls the frame
\* index is in 0..3; each time the animation timer reaches the frame
\* duration the index advances by one, wrapping 3 -> 0 for Idle, Walking and
\* Attack and staying at 3 for the Death animation of a dead enemy.
C17_FrameIndexCycles ==
    /\ [](enemy.current_frame \in 0 .. 3)
    /\ [][FrameAdvancesOnTimer]_vars

\* A living enemy updated up to the last frame of its walk.
C17_Witness ==
    /\ ~enemy.is_dead
    /\ enemy_last.op = "update"
    /\ enemy.animation_state = "Walking"
    /\ enemy.current_frame = 3

\* A frame index that wrapped: a living enemy back at frame 0 with the
\* timer at 0 after more than three frames of walking in one direction.
FrameWrapped ==
    /\ ~enemy.is_dead
    /\ enemy_last.op = "update"
    /\ enemy.animation_state = "Walking"
    /\ enemy.current_frame = 0
    /\ enemy.animation_timer = 0

\* ------------------------------------------------ claims on the classifier
\* Every component of the tested colour is a u8.
IsRgba(c) == \A k \in 1 .. 4 : c[k] \in 0 .. 255

\* The r, g and b of the tested colour all satisfy lo <= v <= hi.
RgbWithin(lo, hi) == \A k \in 1 .. 3 : lo <= tested_color[k] /\ tested_color[k] <= hi

\* C18: is_transparent_color returns a boolean for every RGBA value, true
\* exactly when the colour is the magic colour (152,0,136,255), or alpha <
\* 128, or r, g, b all lie in 50..85, or all in 75..115, or all are < 25, or
\* all are > 230.
C18_TransparentExactly ==
    is_transparent # <<>> =>
        /\ IsRgba(tested_color)
        /\ is_transparent \in {<<TRUE>>, <<FALSE>>}
        /\ is_transparent = <<TRUE>> <=>
              \/ tested_color = <<152, 0, 136, 255>>
              \/ tested_color[4] < 128
              \/ RgbWithin(50, 85)
              \/ RgbWithin(75, 115)
              \/ RgbWithin(0, 24)
              \/ RgbWithin(231, 255)

\* An opaque near-white colour was classified transparent.
C18_Witness ==
    /\ tested_color = <<231, 255, 231, 255>>
    /\ is_transparent = <<TRUE>>

\* Opaque near-black, the magic colour, and an opaque colour that is none of
\* the cases, as classified.
ClassifiedNearBlack == tested_color = <<24, 0, 24, 255>> /\ is_transparent = <<TRUE>>

ClassifiedMagic == tested_color = <<152, 0, 136, 255>> /\ is_transparent = <<TRUE>>

ClassifiedOpaque == tested_color = <<152, 0, 136, 128>> /\ is_transparent = <<FALSE>>

\* -------------------------------------------------- claims on the textures
\* The image the last call looked up, when the key has one.
CalledImage == images[tex_call.ch]

\* The image has pixels and pixel data.
SoundImage(img) == img.width > 0 /\ img.height > 0 /\ ~img.data_null

\* v clamped into 0 .. n - 1.
Clamped(v, n) == IF v > n - 1 THEN n - 1 ELSE v

\* The four bytes of the pixel (x, y) of an image of the given width.
PixelBytes(x, y, w) == LET b == 4 * (y * w + x) IN b .. b + 3

\* C19: get_pixel_color(key, tx, ty) returns, for every tx, ty and image
\* size, zero width or height included: white when the key has no image or
\* the image is inconsistent (no pixels, no data), else the pixel at tx, ty
\* clamped into the image; it reads no byte outside the image data.
C19_ClampedPixelOrWhite ==
    tex_call.op = "get_pixel_color" =>
        /\ tex_result.returned /\ ~tex_result.panic
        /\ IF tex_call.ch \notin DOMAIN images
           THEN tex_result.color = <<255, 255, 255, 255>> /\ tex_reads = {}
           ELSE IF ~SoundImage(CalledImage)
           THEN tex_result.color = <<255, 255, 255, 255>> /\ tex_reads = {}
           ELSE LET x == Clamped(tex_call.tx, CalledImage.width)
                    y == Clamped(tex_call.ty, CalledImage.height)
                    b == 4 * (y * CalledImage.width + x)
                IN /\ tex_reads = PixelBytes(x, y, CalledImage.width)
                   /\ tex_reads \subseteq 0 .. 4 * CalledImage.width * CalledImage.height - 1
                   /\ tex_result.color = <<(b + 1) % 256, (b + 2) % 256,
                                           (b + 3) % 256, (b + 4) % 256>>

\* The same, for a build that does not panic on integer overflow or an image
\* with at least one pixel.
ClampedPixelOrWhiteUnlessOverflow ==
    (overflow_checks /\ tex_call.op = "get_pixel_color" /\ tex_call.ch \in DOMAIN images
        /\ (CalledImage.width = 0 \/ CalledImage.height = 0))
    \/ C19_ClampedPixelOrWhite

\* A lookup beyond the right and bottom edge of a 3 x 2 image, clamped to
\* its last pixel.
LookupClamped ==
    /\ tex_call = [op |-> "get_pixel_color", ch |-> "e", tx |-> 1000, ty |-> 1000]
    /\ images["e"] = [width |-> 3, height |-> 2, data_null |-> FALSE]
    /\ tex_reads = 20 .. 23

\* ---------------------------------------------------- claims on draw_sprite
\* The enemy draw_sprite is drawing in this step.
DrawnSprite == sprites[next_sprite]

\* A draw_sprite step.
DrawSpriteStep == frame_pc = "enemies" /\ next_sprite' = next_sprite + 1

\* The step changes what the pixel shows or the depth stored for it.
PixelChanged(p) ==
    \/ color_buffer'[p] # color_buffer[p]
    \/ depth_buffer'[PixelIndex(p[1], p[2])] # depth_buffer[PixelIndex(p[1], p[2])]

\* The enemy's pixel at p is sampled opaque.
OpaqueAt(sp, p) ==
    SpriteCovers(sp, p[1], p[2]) /\ ~IsTransparentColor(Rgba(SpriteColor(sp, p[1], p[2])))

\* draw_sprite changes a pixel only where the sampled colour is opaque and
\* the enemy is strictly nearer than the stored depth.
WritesOnlyOpaqueAndNearer ==
    [][DrawSpriteStep =>
         \A p \in Pixels :
            PixelChanged(p) =>
               /\ OpaqueAt(DrawnSprite, p)
               /\ DrawnSprite.sprite_d < depth_buffer[PixelIndex(p[1], p[2])]
               /\ color_buffer'[p] = SpriteColor(DrawnSprite, p[1], p[2])
               /\ depth_buffer'[PixelIndex(p[1], p[2])] = DrawnSprite.sprite_d]_vars

\* The frame is complete: every enemy of the collection has been drawn.
FrameDrawn == frame_pc = "enemies" /\ next_sprite > Len(sprites)

\* No wall of p's column covers p at a distance of d or less.
NoWallWithin(p, d) == ~InStake(p[1], p[2]) \/ wall_distance[p[1] + 1] > d

\* After a frame, a pixel two enemies at different distances cover with
\* opaque pixels shows the nearer one's colour, whatever their order, unless
\* a wall nearer still covers it.
NearerEnemyShown ==
    FrameDrawn =>
        \A i, j \in DOMAIN sprites : \A p \in Pixels :
            (/\ OpaqueAt(sprites[i], p) /\ OpaqueAt(sprites[j], p)
             /\ sprites[i].sprite_d < sprites[j].sprite_d
             /\ NoWallWithin(p, sprites[i].sprite_d))
            => /\ color_buffer[p] = SpriteColor(sprites[i], p[1], p[2])
               /\ depth_buffer[PixelIndex(p[1], p[2])] = sprites[i].sprite_d

\* After a frame, a pixel of a wall stake nearer than every enemy covering
\* it still shows the wall.
NearerWallKept ==
    (frame_pc = "enemies") =>
        \A p \in Pixels :
            (/\ InStake(p[1], p[2])
             /\ \A i \in 1 .. next_sprite - 1 :
                   i \in DOMAIN sprites /\ OpaqueAt(sprites[i], p)
                      => wall_distance[p[1] + 1] <= sprites[i].sprite_d)
            => /\ color_buffer[p] = "WALL"
               /\ depth_buffer[PixelIndex(p[1], p[2])] = wall_distance[p[1] + 1]

NearerDrawnFirst ==
    /\ FrameDrawn
    /\ sprites[1].sprite_d = 50 /\ sprites[2].sprite_d = 60
    /\ OpaqueAt(sprites[1], <<0, 1>>) /\ OpaqueAt(sprites[2], <<0, 1>>)
    /\ color_buffer[<<0, 1>>] = SpriteColor(sprites[1], 0, 1)
    /\ SpriteColor(sprites[1], 0, 1) # SpriteColor(sprites[2], 0, 1)

\* A wall at 55 stands before an opaque pixel of an enemy at 60.
WallHidesEnemy ==
    /\ FrameDrawn
    /\ \E p \in Pixels, i \in DOMAIN sprites :
          /\ InStake(p[1], p[2]) /\ wall_distance[p[1] + 1] = 55
          /\ OpaqueAt(sprites[i], p) /\ sprites[i].sprite_d = 60
          /\ color_buffer[p] = "WALL"

\* A transparent pixel of a near enemy leaves the farther enemy visible.
SeenThroughTransparent ==
    /\ FrameDrawn
    /\ \E p \in Pixels :
          /\ SpriteCovers(sprites[2], p[1], p[2]) /\ ~OpaqueAt(sprites[2], p)
          /\ sprites[2].sprite_d < sprites[1].sprite_d
          /\ color_buffer[p] = SpriteColor(sprites[1], p[1], p[2])

\* ------------------------------------------------- claims on render_enemies
\* The place of the enemy numbered id in the collection before the call.
PlaceOf(id) == CHOOSE i \in DOMAIN enemy_ids : enemy_ids[i] = id

\* The numbers of a sequence of enemy numbers.
IdsOf(ids) == {ids[i] : i \in DOMAIN ids}

\* The enemies that should despawn when the call starts.
DespawnEligible ==
    {enemy_ids[i] : i \in {j \in DOMAIN enemies :
                              enemies[j].is_dead /\ enemies[j].death_timer > 3000}}

\* The iterations of the call made for the enemy numbered id.
StepsOf(id) == {k \in DOMAIN frame_log'.steps : frame_log'.steps[k].id = id}

\* C15: render_enemies removes exactly the enemies dead with death timer
\* above 3 seconds when the call starts; such an enemy is neither updated nor
\* drawn in the call, a living enemy is never removed, and every remaining
\* enemy is updated exactly once, in the order of the collection.
C15_DespawnBeforeIterating ==
    [][/\ frame_log'.removed = DespawnEligible
       /\ IdsOf(enemy_ids') = IdsOf(enemy_ids) \ DespawnEligible
       /\ Len(enemy_ids') = Cardinality(IdsOf(enemy_ids'))
       /\ \A i, j \in DOMAIN enemy_ids' :
             i < j => PlaceOf(enemy_ids'[i]) < PlaceOf(enemy_ids'[j])
       /\ \A id \in DespawnEligible : StepsOf(id) = {}
       /\ \A i \in DOMAIN enemies :
             ~enemies[i].is_dead => enemy_ids[i] \in IdsOf(enemy_ids')
       /\ \A id \in IdsOf(enemy_ids') :
             /\ Cardinality(StepsOf(id)) = 1
             /\ \A k \in StepsOf(id) :
                   frame_log'.steps[k].updated =
                      Update(enemies[PlaceOf(id)], frame_log'.delta_time,
                             frame_log'.player)]_vars

\* A dead enemy whose death timer passed 3 seconds was removed while the
\* other enemy of the collection stayed and was updated.
C15_Witness ==
    /\ frame_log.op = "render_enemies"
    /\ frame_log.removed = {1}
    /\ enemy_ids = <<2>>
    /\ Len(frame_log.steps) = 1
    /\ ~enemies[1].is_dead

\* A dead enemy whose death timer is exactly 3 seconds is still in the
\* collection and was updated and drawn.
DeadAtThreeSecondsKept ==
    /\ frame_log.op = "render_enemies"
    /\ \E k \in DOMAIN frame_log.steps :
          /\ frame_log.steps[k].updated.is_dead
          /\ frame_log.steps[k].updated.death_timer - frame_log.delta_time = 3000

\* The squared distance of an enemy to the player of the last call.
SqDistanceToPlayer(e) == DistSq(frame_log.player, e.pos)

\* C16: in each render_enemies call, every enemy living after its update at
\* a distance below 80 is killed, every living enemy at a distance of at
\* least 80 and below 150 is drawn with animation state Attack, a living
\* enemy at 150 or more is drawn as its update left it, and so is a dead one.
C16_KillAndAttackBands ==
    frame_log.op = "render_enemies" =>
        /\ DOMAIN frame_log.steps = DOMAIN enemies
        /\ \A k \in DOMAIN frame_log.steps :
              LET u == frame_log.steps[k].updated
                  d == frame_log.steps[k].drawn
              IN /\ enemies[k] = d
                 /\ IF u.is_dead THEN d = u
                    ELSE IF SqDistanceToPlayer(u) < Deci(80) * Deci(80)
                    THEN /\ d.is_dead
                         /\ d.animation_state = "Death"
                         /\ d.current_frame = 0 /\ d.death_timer = 0
                         /\ d.pos = u.pos
                    ELSE IF SqDistanceToPlayer(u) < Deci(150) * Deci(150)
                    THEN /\ ~d.is_dead
                         /\ d.animation_state = "Attack"
                         /\ d.pos = u.pos
                    ELSE d = u

\* One enemy was killed at a distance below 80 in the call in which the
\* other, between 80 and 150, was drawn attacking.
C16_Witness ==
    /\ frame_log.op = "render_enemies"
    /\ \E k, l \in DOMAIN frame_log.steps :
          /\ ~frame_log.steps[k].updated.is_dead
          /\ SqDistanceToPlayer(frame_log.steps[k].updated) < Deci(80) * Deci(80)
          /\ enemies[k].is_dead
          /\ ~frame_log.steps[l].updated.is_dead
          /\ SqDistanceToPlayer(frame_log.steps[l].updated) >= Deci(80) * Deci(80)
          /\ SqDistanceToPlayer(frame_log.steps[l].updated) < Deci(150) * Deci(150)
          /\ enemies[l].animation_state = "Attack"

\* A living enemy at 150 or more was drawn walking, as its update left it.
FarEnemyKeepsMovementAnimation ==
    /\ frame_log.op = "render_enemies"
    /\ \E k \in DOMAIN frame_log.steps :
          /\ ~frame_log.steps[k].updated.is_dead
          /\ SqDistanceToPlayer(frame_log.steps[k].updated) >= Deci(150) * Deci(150)
          /\ enemies[k].animation_state = "Walking"

\* ------------------------------------------------ further claims on Enemy
\* C27: in every state of an enemy reached through its constructors, update,
\* kill and set_animation(Idle | Walking | Attack), is_dead holds exactly
\* when the animation state is Death.
C27_DeadIffDeathAnimation ==
    enemy.is_dead <=> (enemy.animation_state = "Death")

\* A killed enemy that has been updated since: dead, in its Death animation.
C27_Witness ==
    /\ enemy_killed
    /\ enemy_last.op = "update"
    /\ enemy.is_dead
    /\ enemy.animation_state = "Death"
    /\ enemy.death_timer > 0

\* The position lies in a floor cell of the grid.
InFloorCell(pos) ==
    /\ pos[1] >= 0
    /\ pos[2] >= 0
    /\ pos[2] \div Deci(BlockSize) < Rows(maze)
    /\ pos[1] \div Deci(BlockSize) < Cols(maze)
    /\ Cell(maze, pos[2] \div Deci(BlockSize), pos[1] \div Deci(BlockSize)) = " "

\* C28: an enemy created in a floor cell is in a floor cell of the grid
\* after every sequence of update calls, whatever its movement pattern, the
\* player position and the delta time.
C28_StaysInFloorCell == InFloorCell(enemy.pos)

\* The same for the coordinates that are not negative: the cell the
\* position indexes, with the negative coordinates taken as 0, is floor.
StaysInFloorCellOrNegative ==
    InFloorCell(<<IF enemy.pos[1] < 0 THEN 0 ELSE enemy.pos[1],
                  IF enemy.pos[2] < 0 THEN 0 ELSE enemy.pos[2]>>)

\* A wandering enemy has walked out of the grid on its left side.
WandererLeftGrid ==
    /\ enemy.movement_pattern = "Wander"
    /\ enemy.pos[1] < 0

\* An update in which a living Wander enemy picks a new target: the only
\* code that sets the movement timer back to 0.
WanderPicks ==
    /\ enemy.movement_pattern = "Wander"
    /\ ~enemy.is_dead
    /\ enemy_last'.op = "update"
    /\ enemy'.movement_timer = 0

\* The update was made with delta time dt.
UpdatedWith(dt) == enemy' = Update(enemy, dt, <<0, 0>>)

\* C26: a living Wander enemy picks a new target only when its movement
\* timer has accumulated more than a threshold of 2 to 4 seconds, at every
\* position, negative x included; the timer is 0 after the pick.
C26_WanderPickThreshold ==
    [][WanderPicks =>
         \E dt \in DeltaTimes :
            /\ UpdatedWith(dt)
            /\ enemy.movement_timer + dt > 2000
            /\ enemy'.movement_timer = 0]_vars

\* The same where x is not below 0, with the threshold of the position:
\* 2 seconds plus the whole part of x modulo 3.
WanderPickThresholdInsideGrid ==
    [][WanderPicks /\ enemy.pos[1] >= 0 =>
         \E dt \in DeltaTimes :
            /\ UpdatedWith(dt)
            /\ enemy.movement_timer + dt > 2000 + 1000 * ((enemy.pos[1] \div 10) % 3)
            /\ enemy.movement_timer + dt <= 4000 + dt
            /\ enemy'.movement_timer = 0]_vars

\* ------------------------------------------ claims on frames of the enemies
\* The enemy created first is in the collection.
FirstPresent == 1 \in IdsOf(enemy_ids)

\* The enemy created first, while it is in the collection.
FirstEnemy == enemies[CHOOSE i \in DOMAIN enemy_ids : enemy_ids[i] = 1]

\* The enemy created first was drawn alive inside the Attack band by the
\* last call.
FirstInAttackBand ==
    /\ frame_log.op = "render_enemies"
    /\ FirstPresent
    /\ ~FirstEnemy.is_dead
    /\ SqDistanceToPlayer(FirstEnemy) >= Deci(80) * Deci(80)
    /\ SqDistanceToPlayer(FirstEnemy) < Deci(150) * Deci(150)

\* It was drawn with a frame index above 0.
FirstDrawnPastFrameZero ==
    /\ FirstInAttackBand
    /\ FirstEnemy.animation_state = "Attack"
    /\ FirstEnemy.current_frame > 0

\* C22: a living enemy that stays inside the Attack band from some frame on
\* advances through its Attack frames, so that a frame index above 0 is
\* eventually drawn.
C22_AttackFramesAdvance ==
    <>[]FirstInAttackBand => <>FirstDrawnPastFrameZero

\* Every enemy drawn alive inside the Attack band is drawn with Attack,
\* frame 0 and animation timer 0: set_animation restarts the animation in
\* every frame.
AttackAlwaysDrawnAtFrameZero ==
    frame_log.op = "render_enemies" =>
        \A k \in DOMAIN enemies :
            (/\ ~enemies[k].is_dead
             /\ SqDistanceToPlayer(enemies[k]) >= Deci(80) * Deci(80)
             /\ SqDistanceToPlayer(enemies[k]) < Deci(150) * Deci(150))
            => /\ enemies[k].animation_state = "Attack"
               /\ enemies[k].current_frame = 0
               /\ enemies[k].animation_timer = 0

\* The enemy created first is in the collection, dead.
FirstDead == FirstPresent /\ FirstEnemy.is_dead

\* The enemy created second is in the collection.
SecondPresent == 2 \in IdsOf(enemy_ids)

SecondDead ==
    SecondPresent /\ enemies[CHOOSE i \in DOMAIN enemy_ids : enemy_ids[i] = 2].is_dead

\* An enemy leaves the collection only dead, with its death timer above 3 s.
LeavesOnlyDespawned ==
    [][\A i \in DOMAIN enemies :
          enemy_ids[i] \notin IdsOf(enemy_ids')
             => enemies[i].is_dead /\ enemies[i].death_timer > 3000]_vars

\* C23: every killed enemy is eventually removed from the collection when
\* render_enemies keeps being called with delta times bounded below; until
\* then it stays in the collection.
C23_KilledEventuallyRemoved ==
    /\ FirstDead ~> ~FirstPresent
    /\ SecondDead ~> ~SecondPresent
    /\ LeavesOnlyDespawned

\* The enemy created first was killed and has been removed; the other is
\* still there.
C23_Witness ==
    /\ frame_log.op = "render_enemies"
    /\ 1 \in frame_log.removed
    /\ ~FirstPresent
    /\ SecondPresent

\* ------------------------------------------- claims on the sky and floor
\* C24: after the sky and floor pass on a freshly cleared framebuffer every
\* pixel holds the sentinel depth 10000, in performance mode and in quality
\* mode, for every width and height, odd heights included.
C24_EveryPixelAtSentinelDepth ==
    fill_pc = "filled" =>
        \A i \in DOMAIN depth_buffer : depth_buffer[i] = 10000

\* In performance mode, and in quality mode with an even height, every
\* pixel holds the sentinel depth; in quality mode with an odd height every
\* pixel but those of the bottom row does, and the bottom row is untouched.
SentinelDepthButOddBottomRow ==
    fill_pc = "filled" =>
        \A p \in Pixels :
            IF ~performance_mode /\ height % 2 = 1 /\ p[2] = height - 1
            THEN /\ depth_buffer[PixelIndex(p[1], p[2])] = Infinity
                 /\ color_buffer[p] = background_color
            ELSE depth_buffer[PixelIndex(p[1], p[2])] = 10000

\* Quality mode filled every pixel of a framebuffer of even height.
QualityFilledEvenHeight ==
    /\ fill_pc = "filled"
    /\ ~performance_mode
    /\ height = 4
    /\ \A i \in DOMAIN depth_buffer : depth_buffer[i] = 10000

\* ------------------------------------------------ claims on the game loop
\* The framebuffer shows exactly what this iteration rendered.
ShowsThisFrame ==
    \A p \in Pixels :
        /\ depth_buffer[PixelIndex(p[1], p[2])] = scene[p][1]
        /\ color_buffer[p] = scene[p][2]

\* C29: in every frame in which render_world and render_enemies are called,
\* framebuffer.clear() was called earlier in the frame, so that no colour or
\* depth of a previous frame is left in the image shown.
C29_ClearedBeforeRendering ==
    loop_pc = "present" => frame_cleared /\ ShowsThisFrame

\* The same for the frames rendered in GameState::Playing, the ones that
\* begin with clear().
PlayingFramesCleared ==
    (loop_pc = "present" /\ frame_cleared) => ShowsThisFrame

\* A paused frame was rendered on the buffers of the frame before: a pixel
\* shows a nearer colour that this frame did not submit.
PausedFrameKeepsOldPixel ==
    /\ loop_pc = "present"
    /\ ~frame_cleared
    /\ \E p \in Pixels :
          /\ depth_buffer[PixelIndex(p[1], p[2])] < scene[p][1]
          /\ color_buffer[p] # scene[p][2]

\* ----------------------------------------------- claims on the map loader
\* The cells <<row, column>> of the loaded grid that hold 'p'.
SpawnCells ==
    {rc \in (1 .. Len(maze_data.maze)) \X (1 .. MaxFileLen) :
        rc[2] <= Len(maze_data.maze[rc[1]]) /\ maze_data.maze[rc[1]][rc[2]] = "p"}

\* rc comes before or at sd in reading order.
ReadsBefore(rc, sd) == rc[1] < sd[1] \/ (rc[1] = sd[1] /\ rc[2] <= sd[2])

FirstSpawnCell == CHOOSE rc \in SpawnCells : \A sd \in SpawnCells : ReadsBefore(rc, sd)

\* C30: load_maze_with_player returns as player start the centre of the
\* first 'p' cell in reading order, and (150, 150) when the map has no 'p'.
C30_PlayerStartAtFirstSpawn ==
    maze_data.loaded =>
        maze_data.player_start =
            IF SpawnCells = {} THEN <<150, 150>>
            ELSE <<(FirstSpawnCell[2] - 1) * 100 + 50, (FirstSpawnCell[1] - 1) * 100 + 50>>

\* What holds: the start is the centre of the first 'p' of the last row
\* that has one, and (150, 150) when the map has no 'p'.
PlayerStartAtFirstSpawnOfLastRow ==
    maze_data.loaded =>
        IF SpawnCells = {} THEN maze_data.player_start = <<150, 150>>
        ELSE \E rc \in SpawnCells :
                /\ \A sd \in SpawnCells :
                      sd[1] < rc[1] \/ (sd[1] = rc[1] /\ rc[2] <= sd[2])
                /\ maze_data.player_start = <<(rc[2] - 1) * 100 + 50, (rc[1] - 1) * 100 + 50>>

\* A map with 'p' in two rows was loaded; the start is in the second row.
SecondRowSpawnWins ==
    /\ maze_data.loaded
    /\ map_text = <<"#", "p", "\n", "p">>
    /\ maze_data.maze = << <<"#", "p">>, <<"p">> >>
    /\ maze_data.player_start = <<50, 150>>

\* C21: every grid the loader produces from a text file is non-empty and
\* rectangular: it has a row, and all its rows have the same length.
C21_GridNonEmptyRectangular ==
    maze_data.loaded =>
        /\ Len(maze_data.maze) > 0
        /\ \A j \in DOMAIN maze_data.maze :
              Len(maze_data.maze[j]) = Len(maze_data.maze[1])

\* The rows of a grid written out again, a line feed between two rows.
RECURSIVE JoinRows(_)
JoinRows(m) ==
    IF m = <<>> THEN <<>>
    ELSE IF Len(m) = 1 THEN m[1]
    ELSE m[1] \o <<"\n">> \o JoinRows(Tail(m))

\* A text without the line feed that ends it, if one does.
WithoutLastLineFeed(text) ==
    IF text # <<>> /\ text[Len(text)] = "\n" THEN SubSeq(text, 1, Len(text) - 1) ELSE text

\* The lines of a text: one for each line feed, and one for what follows
\* the last line feed.
LineCount(text) ==
    Cardinality({k \in DOMAIN text : text[k] = "\n"})
        + (IF text # <<>> /\ text[Len(text)] # "\n" THEN 1 ELSE 0)

\* The loader adds and drops nothing: the grid has one row for each line of
\* the file and one cell for each character, whatever the lines are, so it
\* is non-empty and rectangular exactly when the file has a line and its
\* lines are equally long; and a loaded grid is never changed.
GridIsTheFileLineByLine ==
    /\ [](maze_data.loaded =>
            /\ Len(maze_data.maze) = LineCount(map_text)
            /\ JoinRows(maze_data.maze) = WithoutLastLineFeed(map_text)
            /\ \A j \in DOMAIN maze_data.maze : "\n" \notin {maze_data.maze[j][c] : c \in DOMAIN maze_data.maze[j]})
    /\ [][maze_data.loaded => maze_data' = maze_data]_vars

\* A file whose lines differ in length was loaded as it is.
RaggedGridLoaded ==
    /\ maze_data.loaded
    /\ map_text = <<"#", "#", "\n", "#">>
    /\ maze_data.maze = << <<"#", "#">>, <<"#">> >>

\* --------------------------------------------- claims on has_line_of_sight
\* The cells <<row, column>> of the grid, counted from 0, that hold a
\* sampled point of the segment from los_from to los_to.
SampledCells ==
    {rc \in (0 .. Len(maze) - 1) \X (0 .. Len(maze[1]) - 1) :
        \E i \in 0 .. LosSteps(los_from, los_to, block_size) :
            /\ rc[1] = LosIndex(los_from[2], los_to[2], i,
                                LosSteps(los_from, los_to, block_size), block_size)
            /\ rc[2] = LosIndex(los_from[1], los_to[1], i,
                                LosSteps(los_from, los_to, block_size), block_size)}

\* The characters of the sampled cells.
SampledChars == {maze[rc[1] + 1][rc[2] + 1] : rc \in SampledCells}

\* C25: has_line_of_sight returns false exactly when some sampled point of
\* the segment lies in a wall cell, and true when every sampled cell is
\* walkable (' ', 'p' or 'g').
C25_SightBlockedOnlyByWalls ==
    los_result # <<>> =>
        (los_result[1] = FALSE <=> SampledChars \ {" ", "p", "g"} # {})

\* What holds: the sight is blocked exactly when some sampled cell holds
\* anything but ' '.
SightBlockedByAllButFloor ==
    los_result # <<>> =>
        (los_result[1] = FALSE <=> SampledChars \ {" "} # {})

\* The player stands on the spawn cell and the enemy in the floor cell
\* next to it: no wall is sampled and there is no line of sight.
SpawnCellBlocksSight ==
    /\ los_from = <<50, 50>>
    /\ los_to = <<150, 50>>
    /\ SampledChars = {"p", " "}
    /\ los_result = <<FALSE>>

====
